---- MODULE Spec2Model ----
(***************************************************************************)
(* aznet: a net.Conn byte stream over polled cloud storage.                *)
(*                                                                         *)
(* The model follows src/aznet.go (Conn, Listener), src/crypto.go (Noise   *)
(* seal/unseal), src/frame.go (BuildFrame, blobTransport).  Two connected  *)
(* endpoints are modelled: side "A" is the dialer (Noise initiator) and    *)
(* side "B" the connection the listener accepted (Noise responder).  Each  *)
(* side has three goroutines that may run flush() ("wr": the application   *)
(* goroutine calling Write/CloseWrite/Close, "ka": keepAlive, "cl": a      *)
(* second goroutine calling Close -- another application goroutine or the  *)
(* listener's janitor) and one goroutine calling Read.                     *)
(*                                                                         *)
(* One step of the model is one stretch of code between two points where   *)
(* another goroutine can observe or change shared state: a critical        *)
(* section under wmu or rmu, an atomic load/store, a raw transport call.   *)
(* Time is a discrete clock; code takes no time, raw calls are instants.   *)
(***************************************************************************)
EXTENDS Integers, Sequences, FiniteSets, TLC

\* ---------------------------------------------------------------- bounds
\* Transport.MaxRawSize() of the modelled transport (blob: 4 MiB), scaled.
MaxRawSize == 27
\* Longest slice passed to one Write call.
MaxWriteLen == 3
\* Total number of bytes a side passes to Write over a run.
MaxSent == 3
\* Longest buffer passed to one Read call.
MaxReadLen == 2
\* A raw read returns everything available or only this many bytes.
RawCut == 3
\* cfg.pingInterval and cfg.idleTimeout in clock units; clock horizon.
PingInterval == 2
IdleTimeout == 4
MaxTime == 6
\* Rotator.ShouldRotate threshold (blob: MaxBlocksPerBlob-10), scaled.
RotateThreshold == 2
\* Number of Close calls on one connection over a run.
MaxCloseCalls == 3
\* cfg.fastPoll and cfg.dataPoll, the longest raw read that finds no data, and
\* the latest read deadline an application sets.
FastPoll == 1
DataPoll == 2
RawReadMax == 1
MaxDeadline == 3
\* Chunks sealed, and chunks presented to unseal, on a bare Noise session.
MaxChunks == 3
MaxUnseals == 3
\* cfg.connectTimeout.
ConnectTimeout == 5
\* Handshake records dialers post, and responder sessions Accept creates.
MaxRecords == 2
\* The width of time.Duration in bits (64 in the program), sign included.
DurBits == 5
MaxSessions == 3
MaxPending == 2

\* ------------------------------------------------------ program constants
MsgTypeData == 0
MsgTypePing == 1
MsgTypeFin == 2
MsgTypeRotate == 3
FrameHeaderSize == 4 + 1
TagSize == 16
NoiseOverhead == 4 + TagSize

Sides == {"A", "B"}
Peer(s) == IF s = "A" THEN "B" ELSE "A"
\* Goroutines of one connection that can run flush().
Procs == {"wr", "ka", "cl", "lc"}
None == "none"

Min(a, b) == IF a < b THEN a ELSE b
Max(a, b) == IF a > b THEN a ELSE b

\* A frame budget that forgets the frame header (a variant of Conn.mtu).
MtuNoHeader == MaxRawSize - NoiseOverhead
\* A ticker period of a whole idleTimeout (a variant of the janitor's period).
JanitorPeriodWhole == IdleTimeout
\* The period of the janitor's ticker: idleTimeout / 2.
JanitorPeriod == IdleTimeout \div 2

\* Conn.mtu as newConn computes it.
Mtu == MaxRawSize - NoiseOverhead - FrameHeaderSize
\* maxChunk of flush().
\* A chunk budget that forgets the seal's overhead (a variant of maxChunk).
MaxChunkNoOverhead == MaxRawSize
MaxChunk == MaxRawSize - NoiseOverhead

\* ------------------------------------------------------------ byte codecs
\* binary.BigEndian.PutUint32 / Uint32 on a 4-byte field.
PutUint32(n) ==
    << (n \div 16777216) % 256, (n \div 65536) % 256, (n \div 256) % 256, n % 256 >>
Uint32(b) == b[1] * 16777216 + b[2] * 65536 + b[3] * 256 + b[4]

Take(q, n) == SubSeq(q, 1, Min(n, Len(q)))
Drop(q, n) == SubSeq(q, Min(n, Len(q)) + 1, Len(q))

\* BuildFrame: [4 bytes length][1 byte type][payload].
FrameBytes(type, payload) == PutUint32(Len(payload)) \o <<type>> \o payload

\* Write's loop: slice p into DATA frames of at most mtu payload bytes.
RECURSIVE DataFrames(_)
DataFrames(p) ==
    IF Len(p) = 0 THEN <<>>
    ELSE LET chunkSize == Min(Len(p), Mtu)
         IN FrameBytes(MsgTypeData, Take(p, chunkSize)) \o DataFrames(Drop(p, chunkSize))

\* The payload lengths in the headers of a sequence of whole frames.
RECURSIVE PayloadLens(_)
PayloadLens(b) ==
    IF Len(b) < FrameHeaderSize THEN {}
    ELSE {Uint32(b)} \cup PayloadLens(Drop(b, FrameHeaderSize + Uint32(b)))

\* AES-GCM under a Noise CipherState, as an ideal AEAD: the ciphertext of a
\* byte is bound to the key (1 = cs1, 2 = cs2) and to the nonce; 16 tag bytes
\* follow.  A cipher "byte" is >= 256, so it is never mistaken for plaintext.
Stamp(key, nonce) == 2 * nonce + key
Encrypt(key, nonce, pt) ==
    [i \in 1..(Len(pt) + TagSize) |->
        256 * Stamp(key, nonce) + (IF i <= Len(pt) THEN pt[i] ELSE 255)]
\* A check of the key only, whatever the nonce (a variant of DecryptOk).
DecryptOkAnyNonce(key, nonce, ct) ==
    /\ Len(ct) >= TagSize
    /\ \A i \in 1..Len(ct) : (ct[i] \div 256) % 2 = key % 2
    /\ \A i \in (Len(ct) - TagSize + 1)..Len(ct) : ct[i] % 256 = 255
\* CipherState.Decrypt verifies the tag under (key, nonce).
DecryptOk(key, nonce, ct) ==
    /\ Len(ct) >= TagSize
    /\ \A i \in 1..Len(ct) : ct[i] \div 256 = Stamp(key, nonce)
    /\ \A i \in (Len(ct) - TagSize + 1)..Len(ct) : ct[i] % 256 = 255
DecryptBytes(ct) == [i \in 1..(Len(ct) - TagSize) |-> ct[i] % 256]

\* SealData: 4-byte big-endian length of ciphertext+tag, then ciphertext+tag.
SealData(key, nonce, pt) ==
    LET ciphertext == Encrypt(key, nonce, pt)
    IN PutUint32(Len(ciphertext)) \o ciphertext

\* UnsealData on the bytes `data` with the receive cipher (key, nonce):
\* "short" (io.ErrShortBuffer), "fail" (decryption error) or "ok".
UnsealKind(key, nonce, data) ==
    IF Len(data) < 4 THEN "short"
    ELSE LET length == Uint32(data)
         IN IF Len(data) < 4 + length THEN "short"
            ELSE IF DecryptOk(key, nonce, SubSeq(data, 5, 4 + length)) THEN "ok"
            ELSE "fail"
UnsealPlain(data) == DecryptBytes(SubSeq(data, 5, 4 + Uint32(data)))
UnsealRest(data) == Drop(data, 4 + Uint32(data))

\* Read's unseal loop: unseal chunk after chunk from the Noise buffer `nb`
\* into the read buffer `rb` until "short" (err FALSE) or "fail" (err TRUE).
RECURSIVE UnsealLoop(_, _, _, _)
UnsealLoop(key, nonce, nb, rb) ==
    LET kind == UnsealKind(key, nonce, nb)
    IN IF kind = "ok"
       THEN UnsealLoop(key, nonce + 1, UnsealRest(nb), rb \o UnsealPlain(nb))
       ELSE [rb |-> rb, nb |-> nb, nonce |-> nonce, err |-> (kind = "fail")]

MaxOf(S) == CHOOSE m \in S : \A k \in S : k <= m
IsPrefix(a, b) == Len(a) <= Len(b) /\ a = SubSeq(b, 1, Len(a))

\* Application bytes are numbered 11, 12, ...: every header byte of a frame
\* the model can build (a length field, a type) is below 10.
PayloadBase == 2 * FrameHeaderSize
AppBytes(from, n) == [i \in 1..n |-> PayloadBase + from + i]
PayloadOf(q) == {q[i] : i \in {j \in 1..Len(q) : q[j] > PayloadBase}}

\* ------------------------------------------------------------------ state
VARIABLES
    now,            \* the wall clock (time.Now), in clock units
    crashed,        \* a goroutine dereferenced a nil pointer: the process died
    \* Conn fields, one per side
    closed, closedRead, closedWrite,   \* atomic.Uint32 flags
    closeOnce,      \* sync.Once of Close: "new", "running", "done"
    ctxDone,        \* the connection's context is cancelled
    bufs,           \* c.bufs # nil
    wbuf,           \* bufs.Write: [live: unread bytes, off: their offset in the array]
    plain,          \* the slice flush drained with Next and has not sealed yet
    fmu,            \* holder of the flush lock, or None
    rbuf,           \* bufs.Read (unread bytes)
    nbuf,           \* bufs.Noise (raw bytes not yet unsealed)
    readRemain,
    cs1, cs2,       \* nonces of the two Noise cipher states this side holds
    lastActive, peerLastSeen,
    \* transport
    rotator,        \* the transport implements Rotator
    raw,            \* raw[s]: the resources s has written, unread bytes of each
    rxSeq,          \* index of the peer's resource this side reads
    blocksWritten,  \* successful raw writes to the current resource
    \* goroutines
    pc, ret, wreq,  \* per side and goroutine: position, flush caller, Write's slice
    rpc, rreq,      \* Read goroutine: position and len(p)
    kaNext,         \* time of keepAlive's next ticker tick
    \* listener
    live,           \* side B's connection is in Listener.conns
    readDeadline,   \* per side: c.readDeadline as a time, 0 for none / zero time
    poll,           \* per side: AdaptivePoll [cur, skip]
    wake,           \* per side: [from, at] of the raw read and poll.Sleep in progress
    wire,           \* the sealed chunks an observer of the storage has seen:
                    \* [from, seq, pt, chunk], in the order they were sealed
    tried,            \* the UnsealData calls made with such chunks, in order:
                    \* [to, i, expected, kind, plain, rest]
    acc,            \* the handshake exchange of one listener: see NoAccept
    dial,           \* a Dial call: [pc, until, polledAt, wake, polls, complete,
                    \* res, at]: position, timers, GetToken calls answered
                    \* ErrNoData, session state, result and time of return
    jan,            \* janitor: "off", "wait", "closing", "stopped"
    janNext,        \* time of the janitor's next ticker tick
    lis,            \* Listener: [cancelled: l.cfg.ctx is done, pc: position of
                    \* Listener.Close, session / bootstrap: the storage
                    \* resources of B's conn_id / of the listener exist]
    lk,             \* the goroutines of one connection and its three mutexes:
                    \* see NoLocks
    writeDeadline,  \* per side: Conn.writeDeadline (0: nil or the zero time)
    \* observations
    sent,           \* bytes of the slices Write put into the write buffer
    delivered,      \* bytes Read returned
    wres, rres,     \* result of the last Write / Read call
    obs             \* per side: counters and sets recorded for the properties

vars == << now, crashed, closed, closedRead, closedWrite, closeOnce, ctxDone, bufs,
           wbuf, plain, fmu, rbuf, nbuf, readRemain, cs1, cs2, lastActive,
           peerLastSeen, rotator, raw, rxSeq, blocksWritten, pc, ret, wreq, rpc,
           rreq, kaNext, readDeadline, poll, wake, wire, tried, dial, acc,
           live, jan, janNext, lis, lk, writeDeadline, sent,
           delivered, wres, rres, obs >>

flagVars == << closed, closedRead, closedWrite, closeOnce, ctxDone, bufs >>
readVars == << rbuf, nbuf, readRemain >>
noiseVars == << cs1, cs2 >>
rawVars == << raw, rxSeq, blocksWritten >>
rdVars == << rpc, rreq >>
janVars == << live, jan, janNext, lis >>
lkVars == << lk, writeDeadline >>
cfgVars == << lkVars, rotator, acc, readDeadline, poll, wake, wire, tried, dial >>

IsInitiator(s) == s = "A"
\* EncryptData / DecryptData: which cipher state a side sends and receives with.
SendKey(s) == IF IsInitiator(s) THEN 1 ELSE 2
\* Receiving with the cipher the side sends with (a variant of RecvKey).
RecvKeySame(s) == SendKey(s)
RecvKey(s) == IF IsInitiator(s) THEN 2 ELSE 1
SendNonce(s) == IF IsInitiator(s) THEN cs1[s] ELSE cs2[s]
RecvNonce(s) == IF IsInitiator(s) THEN cs2[s] ELSE cs1[s]

EmptyBuf == [live |-> <<>>, off |-> 0]
NoPlain == [start |-> 0, bytes |-> <<>>, orig |-> <<>>]
\* What was seen of a poller: `pending` a raw read has returned bytes and
\* Reset was not called since, `n` the Sleep calls since the last Reset or the
\* construction (3 stands for more), `reset` a Reset was called, `skipped` the
\* last Sleep call returned without sleeping, `cur` and `prev` the durations
\* the last two Sleep calls that did sleep gave to time.Sleep since the last
\* Reset or the construction (0: no such call).
NoNap == [pending |-> FALSE, n |-> 0, reset |-> FALSE, skipped |-> FALSE,
          cur |-> 0, prev |-> 0]
NapReset == [NoNap EXCEPT !.reset = TRUE]
NapSleep(nap, p) ==
    [nap EXCEPT !.n = Min(@ + 1, 3), !.skipped = p.skip,
                !.cur = IF p.skip THEN @ ELSE p.cur,
                !.prev = IF p.skip THEN @ ELSE nap.cur]

NoObs == [wired |-> {}, acked |-> {}, maxFrame |-> 0, maxSealed |-> 0,
          closeSeq |-> 0, tcloses |-> 0, fins |-> 0,
          rotTx |-> 0, rotRx |-> 0, pings |-> 0, failed |-> FALSE,
          skipped |-> {}, unknown |-> FALSE,
          cleanupToken |-> FALSE, deleteTokens |-> 0,
          lastOk |-> 0, cwDone |-> FALSE, lateAccept |-> FALSE,
          lateRead |-> FALSE, closeRet |-> 0, evictIdle |-> FALSE,
          finWired |-> FALSE, dset |-> 0, dlRet |-> 0, dlAt |-> 0,
          decErr |-> FALSE, afterErr |-> FALSE, corrupted |-> FALSE,
          nap |-> NoNap, dataAfterFin |-> FALSE, owed |-> 0,
          rotMid |-> FALSE, altered |-> FALSE]

\* The conn_ids dialers put into their first handshake message; "" is the
\* empty payload.
ConnIds == {"", "c1", "c2"}
\* A listener that has accepted nothing:
\*   records   the handshake records on the storage, id -> conn_id payload
\*   scan      what is left of the list GetHandshakes returned to Accept
\*   sessions  how many responder sessions NewNoiseServer has made
\*   tokens    conn_id -> the responder session whose msg2 is the token (0: none)
\*   created   the conn_ids for which CreateSession succeeded and that
\*             CleanupSession has not removed
\*   conns     Listener.conns: conn_id -> the responder session of the
\*             connection stored under it (0: no entry)
\*   dialed    conn_id -> the responder session whose msg2 Dial consumed (0:
\*             Dial has not returned a connection)
\*   returned  the connections Accept returned and the janitor has not removed
\*   skipped   the reasons for which Accept passed over a record
\*   replaced  a Store replaced the entry of a live connection
\*   posted    how many handshake records were ever uploaded
\*   posts     conn_id -> how many records were uploaded with it
\*   pass      the responder session of the pass that has posted its token and
\*             not yet called NewTransport (0: none)
\*   blobs     the conn_ids whose session container holds the append blob req-0
\*   wrote     the conn_ids whose req-0 holds data the dialer appended
\*   erased    a blob creation replaced a req-0 that held the dialer's data
\*   writeFailed  a WriteRaw of the dialer failed
NoAccept ==
    [records |-> << >>, scan |-> << >>, sessions |-> 0, posted |-> 0,
     posts |-> [c \in ConnIds |-> 0],
     tokens |-> [c \in ConnIds |-> 0], created |-> {},
     conns |-> [c \in ConnIds |-> 0], dialed |-> [c \in ConnIds |-> 0],
     returned |-> {}, skipped |-> {}, replaced |-> FALSE,
     pass |-> 0, blobs |-> {}, wrote |-> {}, erased |-> FALSE,
     writeFailed |-> FALSE]

\* The goroutines that use one connection: a caller of Write ("w"), a caller
\* of CloseWrite and Close ("c"), the keep-alive task ("k") and two callers of
\* Read ("r1", "r2").
Writers == {"w", "c", "k"}
Readers == {"r1", "r2"}
Gs == Writers \cup Readers
\* A connection nobody uses:
\*   pc      goroutine -> its position in the function it runs
\*   op      goroutine -> the call it is in, which names where flush returns:
\*           "write", "closewrite", "ping", "close1" (Close's first flush),
\*           "close2" (its second)
\*   wmu, rmu, fmu   the goroutine that holds the mutex ("none": unlocked)
\*   n       how many chunks the write buffer holds
\*   closed, closedWrite, once   the flags and whether closeOnce has run
NoLocks ==
    [pc |-> [g \in Gs |-> "idle"], op |-> [g \in Gs |-> "none"],
     wmu |-> "none", rmu |-> "none", fmu |-> "none", n |-> 0,
     closed |-> FALSE, closedWrite |-> FALSE, once |-> FALSE]

\* No Dial call was made yet.
NoDial == [pc |-> "idle", until |-> 0, polledAt |-> 0, wake |-> 0, polls |-> 0,
           complete |-> FALSE, res |-> None, at |-> 0]

\* The largest time.Duration, and the value a Duration takes when the exact
\* result of an operation is x (two's complement).
MaxDuration == 2^(DurBits - 1) - 1
Wrap(x) == ((x + MaxDuration + 1) % (2 * (MaxDuration + 1))) - (MaxDuration + 1)
\* DefaultFastPoll, in the clock's unit.
DefaultFastPoll == FastPoll
\* NewAdaptivePoll(fast, steady).
NewAdaptivePoll(fast, steady) ==
    LET f == IF fast <= 0 THEN DefaultFastPoll ELSE fast
        st == IF steady < f THEN f ELSE steady
    IN  [cur |-> f, fast |-> f, steady |-> st, skip |-> FALSE]
\* How long AdaptivePoll.Sleep blocks: not at all when it skips, and
\* time.Sleep(d) returns at once for d <= 0.
Blocked(p) == IF p.skip THEN 0 ELSE Max(p.cur, 0)
\* The poller after AdaptivePoll.Sleep.
Sleep(p) ==
    IF p.skip THEN [p EXCEPT !.skip = FALSE]
    ELSE IF p.cur < p.steady
         THEN LET d == Wrap(2 * p.cur)
              IN  [p EXCEPT !.cur = IF d > p.steady THEN p.steady ELSE d]
         ELSE p
\* A Reset that does not make the next Sleep return at once (a variant of
\* Reset).
ResetNoSkip(p) == [p EXCEPT !.cur = p.fast]
\* The poller after AdaptivePoll.Reset.
Reset(p) == [p EXCEPT !.cur = p.fast, !.skip = TRUE]

\* newConn on both sides at time 0, after a completed handshake.  `ka` says on
\* which sides cfg.pingInterval > 0, `rot` which transports are Rotators,
\* `janitor` whether side B is a listener's connection with a running janitor.
InitConnPolled(ka, rot, janitor, fastPoll, dataPoll) ==
    /\ now = 0
    /\ crashed = [s \in Sides |-> FALSE]
    /\ closed = [s \in Sides |-> 0]
    /\ closedRead = [s \in Sides |-> 0]
    /\ closedWrite = [s \in Sides |-> 0]
    /\ closeOnce = [s \in Sides |-> "new"]
    /\ ctxDone = [s \in Sides |-> FALSE]
    /\ bufs = [s \in Sides |-> TRUE]
    /\ wbuf = [s \in Sides |-> EmptyBuf]
    /\ plain = [s \in Sides |-> NoPlain]
    /\ fmu = [s \in Sides |-> None]
    /\ rbuf = [s \in Sides |-> <<>>]
    /\ nbuf = [s \in Sides |-> <<>>]
    /\ readRemain = [s \in Sides |-> 0]
    /\ cs1 = [s \in Sides |-> 0]
    /\ cs2 = [s \in Sides |-> 0]
    /\ lastActive = [s \in Sides |-> 0]
    /\ peerLastSeen = [s \in Sides |-> 0]
    /\ rotator = [s \in Sides |-> s \in rot]
    /\ raw = [s \in Sides |-> << <<>> >>]
    /\ rxSeq = [s \in Sides |-> 1]
    /\ blocksWritten = [s \in Sides |-> 0]
    /\ pc = [s \in Sides |-> [p \in Procs |->
                IF p = "ka" THEN (IF s \in ka THEN "ka_wait" ELSE "off") ELSE "idle"]]
    /\ ret = [s \in Sides |-> [p \in Procs |-> None]]
    /\ wreq = [s \in Sides |-> <<>>]
    /\ rpc = [s \in Sides |-> "rd_idle"]
    /\ rreq = [s \in Sides |-> 0]
    /\ kaNext = [s \in Sides |-> PingInterval]
    /\ readDeadline = [s \in Sides |-> 0]
    /\ poll = [s \in Sides |-> NewAdaptivePoll(fastPoll, dataPoll)]
    /\ wake = [s \in Sides |-> [from |-> 0, at |-> 0]]
    /\ wire = <<>>
    /\ tried = <<>>
    /\ dial = NoDial
    /\ acc = NoAccept
    /\ lk = NoLocks
    /\ writeDeadline = [s \in Sides |-> 0]
    /\ live = janitor
    /\ jan = IF janitor THEN "wait" ELSE "off"
    /\ janNext = JanitorPeriod
    /\ lis = [cancelled |-> FALSE, pc |-> "idle", session |-> janitor,
              bootstrap |-> janitor]
    /\ sent = [s \in Sides |-> <<>>]
    /\ delivered = [s \in Sides |-> <<>>]
    /\ wres = [s \in Sides |-> None]
    /\ rres = [s \in Sides |-> None]
    /\ obs = [s \in Sides |-> NoObs]
\* The same with cfg.fastPoll = FastPoll and cfg.dataPoll = DataPoll.
InitConn(ka, rot, janitor) == InitConnPolled(ka, rot, janitor, FastPoll, DataPoll)

\* ------------------------------------------------------- the write buffer
\* bytes.Buffer.Write on bufs.Write (capacity is never exceeded: pooled
\* buffers keep their capacity).  An empty buffer with a read offset is Reset
\* first, so the bytes land at position 0 of the array.
WritePos(b) == IF Len(b.live) = 0 THEN 0 ELSE b.off + Len(b.live)
BufWrite(b, x) ==
    IF Len(b.live) = 0 THEN [live |-> x, off |-> 0]
    ELSE [live |-> b.live \o x, off |-> b.off]
\* bytes.Buffer.Next(n): the slice returned aliases the array at [off, off+n).
BufNext(b, n) == [live |-> Drop(b.live, n), off |-> b.off + Min(n, Len(b.live))]
\* What a slice obtained from Next holds after x was written at position wpos.
Aliased(pl, wpos, x) ==
    [start |-> pl.start, orig |-> pl.orig,
     bytes |-> [i \in 1..Len(pl.bytes) |->
                  LET at == pl.start + i - 1
                  IN IF at >= wpos /\ at < wpos + Len(x)
                     THEN x[at - wpos + 1] ELSE pl.bytes[i]]]

\* BuildFrame calls under wmu: append the bytes x to side s's write buffer.
AppendFrames(s, x) ==
    /\ wbuf' = [wbuf EXCEPT ![s] = BufWrite(@, x)]
    /\ plain' = [plain EXCEPT ![s] = Aliased(@, WritePos(wbuf[s]), x)]

Goto(s, p, where) == pc' = [pc EXCEPT ![s][p] = where]
CallFlush(s, p, from) ==
    /\ pc' = [pc EXCEPT ![s][p] = "flush"]
    /\ ret' = [ret EXCEPT ![s][p] = from]

\* ------------------------------------------------------------------ Write
\* A check that looks at `closed` only (a variant of Write's check).
WriteRefusedClosedOnly(s) == closed[s] = 1
\* Write's first check: io.ErrClosedPipe once closed or write-closed.
WriteRefused(s) == closed[s] = 1 \/ closedWrite[s] = 1

\* A deadline test that takes the zero time for a deadline (variant).
WriteDeadlinePassedZero(s) == now > writeDeadline[s]
\* Write's second check: a write deadline is set, is not the zero time, and
\* now is after it.
WriteDeadlinePassed(s) == writeDeadline[s] # 0 /\ now > writeDeadline[s]

\* Write up to the point where it takes wmu: the closed / closedWrite check,
\* then the deadline check.
WriteCall(s, n) ==
    /\ ~crashed[s]
    /\ pc[s]["wr"] = "idle"
    /\ Len(sent[s]) + n <= MaxSent
    /\ IF WriteRefused(s) \/ WriteDeadlinePassed(s)
       THEN /\ wres' = [wres EXCEPT ![s] = IF WriteRefused(s) THEN "closedpipe"
                                           ELSE "deadline"]
            /\ UNCHANGED << pc, wreq, obs >>
       ELSE /\ Goto(s, "wr", "w_append")
            /\ wreq' = [wreq EXCEPT ![s] = AppBytes(Len(sent[s]), n)]
            /\ wres' = [wres EXCEPT ![s] = None]
            /\ obs' = [obs EXCEPT ![s].lateAccept = @ \/ obs[s].cwDone]
    /\ UNCHANGED << now, crashed, flagVars, wbuf, plain, fmu, readVars, noiseVars,
                    lastActive, peerLastSeen, cfgVars, rawVars, ret, rdVars,
                    kaNext, janVars, sent, delivered, rres >>

\* Write's critical section under wmu: one DATA frame per mtu-sized piece.
WriteAppend(s) ==
    /\ ~crashed[s]
    /\ pc[s]["wr"] = "w_append"
    /\ IF ~bufs[s]
       THEN /\ crashed' = [crashed EXCEPT ![s] = TRUE]
            /\ UNCHANGED << wbuf, plain, pc, ret, sent, obs >>
       ELSE /\ AppendFrames(s, DataFrames(wreq[s]))
            /\ CallFlush(s, "wr", "write")
            /\ sent' = [sent EXCEPT ![s] = @ \o wreq[s]]
            /\ obs' = [obs EXCEPT ![s].maxFrame =
                          Max(@, MaxOf(PayloadLens(DataFrames(wreq[s])))),
                                  ![s].dataAfterFin = @ \/ obs[s].fins > 0]
            /\ UNCHANGED crashed
    /\ UNCHANGED << now, flagVars, fmu, readVars, noiseVars, lastActive,
                    peerLastSeen, cfgVars, rawVars, wreq, rdVars, kaNext, janVars,
                    delivered, wres, rres >>

\* A peer of a later version buffers a frame of a type this version does not
\* know, with a one-byte payload; its next flush sends it.
MsgTypeUnknown == MsgTypeRotate + 1
SendUnknown(s) ==
    /\ ~crashed[s]
    /\ bufs[s]
    /\ ~obs[s].unknown
    /\ AppendFrames(s, FrameBytes(MsgTypeUnknown, << 0 >>))
    /\ obs' = [obs EXCEPT ![s].unknown = TRUE]
    /\ UNCHANGED << now, crashed, flagVars, fmu, readVars, noiseVars, lastActive,
                    peerLastSeen, cfgVars, rawVars, pc, ret, wreq, rdVars, kaNext,
                    janVars, sent, delivered, wres, rres >>

\* ------------------------------------------------------------------ flush
\* A goroutine is inside flush from "flush" (waiting for fmu) on; "fl_loop"
\* is the top of the loop with fmu held, "fl_send" the point after the write
\* buffer was drained and wmu released, before SealData.
AtLoopTop(s, p) ==
    \/ pc[s][p] = "fl_loop" /\ fmu[s] = p
    \/ pc[s][p] = "flush" /\ fmu[s] = None

\* Where flush's caller continues, and what it records, when flush returns.
Resume(s, p, failed) ==
    /\ pc' = [pc EXCEPT ![s][p] =
                CASE ret[s][p] = "write" -> "idle"
                  [] ret[s][p] = "closewrite" -> "idle"
                  [] ret[s][p] = "ping" -> "ka_wait"
                  [] ret[s][p] = "close1" -> "cl_chk"
                  [] ret[s][p] = "close2" -> "cl_tear"]
    /\ wres' = IF ret[s][p] = "write"
               THEN [wres EXCEPT ![s] = IF failed THEN "err" ELSE "ok"]
               ELSE wres
    /\ ret' = [ret EXCEPT ![s][p] = None]

\* What the return of flush's caller adds to the record o of side s: a Write
\* that returns (len(p), nil) acknowledges its bytes; CloseWrite has returned.
Noted(o, s, p, failed) ==
    [o EXCEPT !.acked = IF ret[s][p] = "write" /\ ~failed
                        THEN @ \cup PayloadOf(wreq[s]) ELSE @,
              !.cwDone = @ \/ ret[s][p] = "closewrite",
              !.failed = @ \/ failed]

\* flush finds the write buffer empty and returns nil.
FlushEmpty(s, p) ==
    /\ ~crashed[s]
    /\ AtLoopTop(s, p)
    /\ bufs[s]
    /\ Len(wbuf[s].live) = 0
    /\ fmu' = [fmu EXCEPT ![s] = None]
    /\ Resume(s, p, FALSE)
    /\ obs' = [obs EXCEPT ![s] = Noted(@, s, p, FALSE)]
    /\ UNCHANGED << now, crashed, flagVars, wbuf, plain, readVars, noiseVars,
                    lastActive, peerLastSeen, cfgVars, rawVars, wreq, rdVars,
                    kaNext, janVars, sent, delivered, rres >>

ShouldRotate(s) == rotator[s] /\ blocksWritten[s] >= RotateThreshold

\* The buffered bytes b start with whole frames; how many bytes of the frame
\* that holds byte k of b lie behind byte k (0: byte k ends a frame).
RECURSIVE FrameOwed(_, _)
FrameOwed(b, k) ==
    IF k = 0 THEN 0
    ELSE LET fl == FrameHeaderSize + Uint32(Take(b, 4))
         IN  IF k < fl THEN fl - k ELSE FrameOwed(Drop(b, fl), k - fl)
\* The same when b starts with the last o bytes of a frame whose beginning was
\* drained before.
Owed(o, b, k) == IF k <= o THEN o - k ELSE FrameOwed(Drop(b, o), k - o)

\* flush drains up to maxChunk bytes with Next and releases wmu.
FlushDrain(s, p) ==
    /\ ~crashed[s]
    /\ AtLoopTop(s, p)
    /\ bufs[s]
    /\ Len(wbuf[s].live) > 0
    /\ ~ShouldRotate(s)
    /\ fmu' = [fmu EXCEPT ![s] = p]
    /\ plain' = [plain EXCEPT ![s] =
                    [start |-> wbuf[s].off, bytes |-> Take(wbuf[s].live, MaxChunk),
                     orig |-> Take(wbuf[s].live, MaxChunk)]]
    /\ wbuf' = [wbuf EXCEPT ![s] = BufNext(@, MaxChunk)]
    /\ obs' = [obs EXCEPT ![s].owed =
                  Owed(@, wbuf[s].live, Min(Len(wbuf[s].live), MaxChunk))]
    /\ Goto(s, p, "fl_send")
    /\ UNCHANGED << now, crashed, flagVars, readVars, noiseVars, lastActive,
                    peerLastSeen, cfgVars, rawVars, ret, wreq, rdVars, kaNext,
                    janVars, sent, delivered, wres, rres >>

\* The chunk SealData produces from the drained slice as it reads now.
Sealed(s) == SealData(SendKey(s), SendNonce(s), plain[s].bytes)
AdvanceSend(s) ==
    /\ cs1' = IF IsInitiator(s) THEN [cs1 EXCEPT ![s] = @ + 1] ELSE cs1
    /\ cs2' = IF IsInitiator(s) THEN cs2 ELSE [cs2 EXCEPT ![s] = @ + 1]
\* WriteRaw appends one unit to the current resource of side s.
RawAppend(s, unit) == [raw EXCEPT ![s][Len(raw[s])] = @ \o unit]

\* The plaintext b holds a FIN frame.
HasFin(b) ==
    \E i \in 1..Len(b) :
        /\ i + FrameHeaderSize - 1 <= Len(b)
        /\ SubSeq(b, i, i + FrameHeaderSize - 1) = FrameBytes(MsgTypeFin, <<>>)

\* SealData, a WriteRaw that succeeds, lastActive.Store(now).
FlushSend(s, p) ==
    /\ ~crashed[s]
    /\ pc[s][p] = "fl_send"
    /\ ~ctxDone[s]
    /\ AdvanceSend(s)
    /\ raw' = RawAppend(s, Sealed(s))
    /\ blocksWritten' = [blocksWritten EXCEPT ![s] = @ + 1]
    /\ lastActive' = [lastActive EXCEPT ![s] = now]
    /\ plain' = [plain EXCEPT ![s] = NoPlain]
    /\ obs' = [obs EXCEPT ![s].wired = @ \cup PayloadOf(plain[s].bytes),
                          ![s].maxSealed = Max(@, Len(Sealed(s)) - 4),
                          ![s].altered = @ \/ plain[s].bytes # plain[s].orig,
                          ![s].failed = FALSE,
                          ![s].lastOk = now,
                          ![s].finWired = @ \/ HasFin(plain[s].bytes)]
    /\ Goto(s, p, "fl_loop")
    /\ UNCHANGED << now, crashed, flagVars, wbuf, fmu, readVars, peerLastSeen,
                    cfgVars, rxSeq, ret, wreq, rdVars, kaNext, janVars, sent,
                    delivered, wres, rres >>

\* SealData, then a WriteRaw that fails: the chunk is lost, flush returns the
\* error, the send nonce stays advanced.
FlushSendFail(s, p) ==
    /\ ~crashed[s]
    /\ pc[s][p] = "fl_send"
    /\ AdvanceSend(s)
    /\ plain' = [plain EXCEPT ![s] = NoPlain]
    /\ fmu' = [fmu EXCEPT ![s] = None]
    /\ Resume(s, p, TRUE)
    /\ obs' = [obs EXCEPT ![s] = Noted(@, s, p, TRUE)]
    /\ UNCHANGED << now, crashed, flagVars, wbuf, readVars, lastActive,
                    peerLastSeen, cfgVars, rawVars, wreq, rdVars, kaNext, janVars,
                    sent, delivered, rres >>

\* SealData, then a WriteRaw whose context is already cancelled: the driver
\* returns the cancellation error and nothing is written.
FlushSendCanceled(s, p) == ctxDone[s] /\ FlushSendFail(s, p)

\* flush reaches c.bufs after Close released the buffers: nil dereference.
FlushNil(s, p) ==
    /\ ~crashed[s]
    /\ AtLoopTop(s, p)
    /\ ~bufs[s]
    /\ crashed' = [crashed EXCEPT ![s] = TRUE]
    /\ UNCHANGED << now, flagVars, wbuf, plain, fmu, readVars, noiseVars,
                    lastActive, peerLastSeen, cfgVars, rawVars, pc, ret, wreq,
                    rdVars, kaNext, janVars, sent, delivered, wres, rres, obs >>

\* The rotation branch of flush: a ROTATE frame built in a private buffer is
\* sealed and written to the old resource, then RotateTX switches to a new
\* one.  lastActive is not touched on this path.
FlushRotate(s, p) ==
    /\ ~crashed[s]
    /\ AtLoopTop(s, p)
    /\ bufs[s]
    /\ Len(wbuf[s].live) > 0
    /\ ShouldRotate(s)
    /\ fmu' = [fmu EXCEPT ![s] = p]
    /\ AdvanceSend(s)
    /\ LET sealed == SealData(SendKey(s), SendNonce(s), FrameBytes(MsgTypeRotate, <<>>))
       IN raw' = [raw EXCEPT ![s] = Append(RawAppend(s, sealed)[s], <<>>)]
    /\ blocksWritten' = [blocksWritten EXCEPT ![s] = 0]
    /\ obs' = [obs EXCEPT ![s].rotTx = @ + 1,
                          ![s].rotMid = @ \/ obs[s].owed > 0,
                          ![s].lastOk = now,
                          ![s].maxSealed = Max(@, FrameHeaderSize + TagSize)]
    /\ Goto(s, p, "fl_loop")
    /\ UNCHANGED << now, crashed, flagVars, wbuf, plain, readVars, lastActive,
                    peerLastSeen, cfgVars, rxSeq, ret, wreq, rdVars, kaNext,
                    janVars, sent, delivered, wres, rres >>

\* ------------------------------------------------------------- CloseWrite
\* The first operand of CloseWrite's test: closed.Load().  CloseWrite returns
\* nil if it is 1; the two operands are separate atomic operations.
CloseWriteCall(s) ==
    /\ ~crashed[s]
    /\ pc[s]["wr"] = "idle"
    /\ IF closed[s] = 1
       THEN /\ obs' = [obs EXCEPT ![s].cwDone = TRUE]
            /\ UNCHANGED pc
       ELSE /\ Goto(s, "wr", "cw_swap")
            /\ UNCHANGED obs
    /\ UNCHANGED << now, crashed, flagVars, wbuf, plain, fmu, readVars,
                    noiseVars, lastActive, peerLastSeen, cfgVars, rawVars, ret,
                    wreq, rdVars, kaNext, janVars, sent, delivered, wres, rres >>

\* The second operand of CloseWrite's test, evaluated when closed was read as
\* 0: closedWrite.Swap(1).  CloseWrite returns nil if the old value is 1.
CloseWriteSwap(s) ==
    /\ ~crashed[s]
    /\ pc[s]["wr"] = "cw_swap"
    /\ closedWrite' = [closedWrite EXCEPT ![s] = 1]
    /\ IF closedWrite[s] = 1
       THEN /\ obs' = [obs EXCEPT ![s].cwDone = TRUE]
            /\ Goto(s, "wr", "idle")
       ELSE /\ Goto(s, "wr", "cw_append")
            /\ UNCHANGED obs
    /\ UNCHANGED << now, crashed, closed, closedRead, closeOnce, ctxDone, bufs, wbuf,
                    plain, fmu, readVars, noiseVars, lastActive, peerLastSeen,
                    cfgVars, rawVars, ret, wreq, rdVars, kaNext, janVars, sent,
                    delivered, wres, rres >>

\* CloseWrite builds the FIN frame under wmu and calls flush.
CloseWriteAppend(s) ==
    /\ ~crashed[s]
    /\ pc[s]["wr"] = "cw_append"
    /\ IF ~bufs[s]
       THEN /\ crashed' = [crashed EXCEPT ![s] = TRUE]
            /\ UNCHANGED << wbuf, plain, pc, ret, obs >>
       ELSE /\ AppendFrames(s, FrameBytes(MsgTypeFin, <<>>))
            /\ CallFlush(s, "wr", "closewrite")
            /\ obs' = [obs EXCEPT ![s].fins = @ + 1]
            /\ UNCHANGED crashed
    /\ UNCHANGED << now, flagVars, fmu, readVars, noiseVars, lastActive,
                    peerLastSeen, cfgVars, rawVars, wreq, rdVars, kaNext, janVars,
                    sent, delivered, wres, rres >>

\* ------------------------------------------------------------------ Close
\* closeOnce.Do: the first caller stores closed = 1 and enters the first
\* flush; a caller that finds the Once running waits for it; a caller that
\* finds it done returns nil at once.
\* A Once that never remembers having run (a variant of closeOnce).
OnceForgets(s) == "new"
\* closeOnce as Do sees it.
OnceDo(s) == closeOnce[s]
CloseCall(s, p) ==
    /\ ~crashed[s]
    /\ pc[s][p] = "idle"
    /\ obs[s].closeRet < MaxCloseCalls
    /\ IF OnceDo(s) = "new"
       THEN /\ closeOnce' = [closeOnce EXCEPT ![s] = "running"]
            /\ closed' = [closed EXCEPT ![s] = 1]
            /\ CallFlush(s, p, "close1")
            /\ obs' = [obs EXCEPT ![s].closeSeq = @ + 1]
       ELSE IF OnceDo(s) = "running"
       THEN /\ Goto(s, p, "cl_wait")
            /\ UNCHANGED << closeOnce, closed, ret, obs >>
       ELSE /\ obs' = [obs EXCEPT ![s].closeRet = @ + 1]
            /\ UNCHANGED << closeOnce, closed, pc, ret >>
    /\ UNCHANGED << now, crashed, closedRead, closedWrite, ctxDone, bufs, wbuf, plain,
                    fmu, readVars, noiseVars, lastActive, peerLastSeen, cfgVars,
                    rawVars, wreq, rdVars, kaNext, janVars, sent, delivered, wres,
                    rres >>

\* A Close call that waited on the Once returns nil when the Once is done.
CloseWait(s, p) ==
    /\ ~crashed[s]
    /\ pc[s][p] = "cl_wait"
    /\ closeOnce[s] = "done"
    /\ Goto(s, p, "idle")
    /\ obs' = [obs EXCEPT ![s].closeRet = @ + 1]
    /\ UNCHANGED << now, crashed, flagVars, wbuf, plain, fmu, readVars, noiseVars,
                    lastActive, peerLastSeen, cfgVars, rawVars, ret, wreq, rdVars,
                    kaNext, janVars, sent, delivered, wres, rres >>

\* Close after its first flush: the closedWrite check.
CloseCheck(s, p) ==
    /\ ~crashed[s]
    /\ pc[s][p] = "cl_chk"
    /\ IF closedWrite[s] = 0
       THEN /\ Goto(s, p, "cl_fin")
            /\ UNCHANGED ret
       ELSE CallFlush(s, p, "close2")
    /\ UNCHANGED << now, crashed, flagVars, wbuf, plain, fmu, readVars, noiseVars,
                    lastActive, peerLastSeen, cfgVars, rawVars, wreq, rdVars,
                    kaNext, janVars, sent, delivered, wres, rres, obs >>

\* Close builds the FIN frame under wmu and calls flush a second time.
CloseFin(s, p) ==
    /\ ~crashed[s]
    /\ pc[s][p] = "cl_fin"
    /\ AppendFrames(s, FrameBytes(MsgTypeFin, <<>>))
    /\ CallFlush(s, p, "close2")
    /\ obs' = [obs EXCEPT ![s].fins = @ + 1]
    /\ UNCHANGED << now, crashed, flagVars, fmu, readVars, noiseVars, lastActive,
                    peerLastSeen, cfgVars, rawVars, wreq, rdVars, kaNext, janVars,
                    sent, delivered, wres, rres >>

\* The tail of the close sequence: transport.Close, cancel, the buffers are
\* reset and returned to the pool, c.bufs = nil; the Once is done.
CloseTeardown(s, p) ==
    /\ ~crashed[s]
    /\ pc[s][p] = "cl_tear"
    /\ ctxDone' = [ctxDone EXCEPT ![s] = TRUE]
    /\ rbuf' = [rbuf EXCEPT ![s] = <<>>]
    /\ nbuf' = [nbuf EXCEPT ![s] = <<>>]
    /\ wbuf' = [wbuf EXCEPT ![s] = EmptyBuf]
    /\ bufs' = [bufs EXCEPT ![s] = FALSE]
    /\ closeOnce' = [closeOnce EXCEPT ![s] = "done"]
    /\ obs' = [obs EXCEPT ![s].tcloses = @ + 1, ![s].closeRet = @ + 1]
    /\ Goto(s, p, "idle")
    /\ UNCHANGED << now, crashed, closed, closedRead, closedWrite, plain, fmu,
                    readRemain, noiseVars, lastActive, peerLastSeen, cfgVars,
                    rawVars, ret, wreq, rdVars, kaNext, janVars, sent, delivered,
                    wres, rres >>

\* -------------------------------------------------------------- keepAlive
\* A comparison with twice the interval (a variant of keepAlive's test).
PingDueLate(s) == now - lastActive[s] >= 2 * PingInterval
\* keepAlive's test time.Since(lastActive) >= pingInterval.
PingDue(s) == now - lastActive[s] >= PingInterval

\* A test that looks at `closed` only (variant).
KeepAliveOverClosedOnly(s) == closed[s] = 1
\* keepAlive's test at a tick: it returns once closed or closedWrite is set.
KeepAliveOver(s) == closed[s] = 1 \/ closedWrite[s] = 1

\* A ticker tick of keepAlive: the closed / closedWrite check and the
\* comparison of time.Since(lastActive) with pingInterval.
KeepAliveTick(s) ==
    /\ ~crashed[s]
    /\ pc[s]["ka"] = "ka_wait"
    /\ ~ctxDone[s]
    /\ now = kaNext[s]
    /\ kaNext' = [kaNext EXCEPT ![s] = @ + PingInterval]
    /\ IF KeepAliveOver(s) THEN Goto(s, "ka", "ka_done")
       ELSE IF PingDue(s) THEN Goto(s, "ka", "ka_append")
       ELSE UNCHANGED pc
    /\ UNCHANGED << now, crashed, flagVars, wbuf, plain, fmu, readVars, noiseVars,
                    lastActive, peerLastSeen, cfgVars, rawVars, ret, wreq, rdVars,
                    janVars, sent, delivered, wres, rres, obs >>

\* keepAlive's select takes <-c.ctx.Done() and returns.
KeepAliveStop(s) ==
    /\ ~crashed[s]
    /\ pc[s]["ka"] = "ka_wait"
    /\ ctxDone[s]
    /\ Goto(s, "ka", "ka_done")
    /\ UNCHANGED << now, crashed, flagVars, wbuf, plain, fmu, readVars, noiseVars,
                    lastActive, peerLastSeen, cfgVars, rawVars, ret, wreq, rdVars,
                    kaNext, janVars, sent, delivered, wres, rres, obs >>

\* keepAlive builds the PING frame under wmu and calls flush.
KeepAliveAppend(s) ==
    /\ ~crashed[s]
    /\ pc[s]["ka"] = "ka_append"
    /\ IF ~bufs[s]
       THEN /\ crashed' = [crashed EXCEPT ![s] = TRUE]
            /\ UNCHANGED << wbuf, plain, pc, ret, obs >>
       ELSE /\ AppendFrames(s, FrameBytes(MsgTypePing, <<>>))
            /\ CallFlush(s, "ka", "ping")
            /\ obs' = [obs EXCEPT ![s].pings = 1]
            /\ UNCHANGED crashed
    /\ UNCHANGED << now, flagVars, fmu, readVars, noiseVars, lastActive,
                    peerLastSeen, cfgVars, rawVars, wreq, rdVars, kaNext, janVars,
                    sent, delivered, wres, rres >>

\* ------------------------------------------------------------------- Read
ReadCall(r, n) ==
    /\ ~crashed[r]
    /\ rpc[r] = "rd_idle"
    /\ rpc' = [rpc EXCEPT ![r] = "rd_top"]
    /\ rreq' = [rreq EXCEPT ![r] = n]
    /\ rres' = [rres EXCEPT ![r] = None]
    /\ UNCHANGED << now, crashed, flagVars, wbuf, plain, fmu, readVars, noiseVars,
                    lastActive, peerLastSeen, cfgVars, rawVars, pc, ret, wreq,
                    kaNext, janVars, sent, delivered, wres, obs >>

\* Top of Read's loop: the closed check, before rmu is taken.
ReadTop(r) ==
    /\ ~crashed[r]
    /\ rpc[r] = "rd_top"
    /\ IF closed[r] = 1
       THEN /\ rpc' = [rpc EXCEPT ![r] = "rd_idle"]
            /\ rres' = [rres EXCEPT ![r] = "closed"]
       ELSE /\ rpc' = [rpc EXCEPT ![r] = "rd_lock"]
            /\ UNCHANGED rres
    /\ UNCHANGED << now, crashed, flagVars, wbuf, plain, fmu, readVars, noiseVars,
                    lastActive, peerLastSeen, cfgVars, rawVars, pc, ret, wreq,
                    rreq, kaNext, janVars, sent, delivered, wres, obs >>

\* The frame at the head of the read buffer, if it is complete.
HasFrame(r) ==
    /\ Len(rbuf[r]) >= FrameHeaderSize
    /\ Len(rbuf[r]) >= FrameHeaderSize + Uint32(rbuf[r])
HeadLen(r) == Uint32(rbuf[r])
HeadType(r) == rbuf[r][5]

\* A test that lets the deadline pass by a whole raw read and poller sleep
\* (a variant of Read's deadline test).
DeadlinePassedLate(r) ==
    readDeadline[r] # 0 /\ now > readDeadline[r] + RawReadMax + DataPoll
\* Read's test: a deadline is set, is not the zero time, and now is after it.
DeadlinePassed(r) == readDeadline[r] # 0 /\ now > readDeadline[r]

\* A Read that takes only the header of such a frame (variant).
ConsumedHeader(r) == FrameHeaderSize
\* What Read takes off the read buffer for a complete frame that is not a
\* DATA frame: header and payload.
Consumed(r) == FrameHeaderSize + HeadLen(r)

\* Read's critical section under rmu: EOF once closedRead, the deadline, the
\* rest of a DATA frame, or the dispatch of the next complete frame.
ReadLocked(r) ==
    /\ ~crashed[r]
    /\ rpc[r] = "rd_lock"
    /\ IF closedRead[r] = 1
       THEN /\ rpc' = [rpc EXCEPT ![r] = "rd_idle"]
            /\ rres' = [rres EXCEPT ![r] = "eof"]
            /\ UNCHANGED << crashed, closedRead, rbuf, readRemain, peerLastSeen,
                            rxSeq, delivered, obs >>
       ELSE IF DeadlinePassed(r)
       THEN /\ rpc' = [rpc EXCEPT ![r] = "rd_idle"]
            /\ rres' = [rres EXCEPT ![r] = "deadline"]
            /\ obs' = [obs EXCEPT ![r].dlRet = readDeadline[r], ![r].dlAt = now]
            /\ UNCHANGED << crashed, closedRead, rbuf, readRemain, peerLastSeen,
                            rxSeq, delivered >>
       ELSE IF ~bufs[r]
       THEN /\ crashed' = [crashed EXCEPT ![r] = TRUE]
            /\ UNCHANGED << closedRead, rbuf, readRemain, peerLastSeen, rxSeq,
                            delivered, obs, rpc, rres >>
       ELSE IF readRemain[r] > 0
       THEN LET got == Take(rbuf[r], Min(readRemain[r], rreq[r]))
            IN /\ rbuf' = [rbuf EXCEPT ![r] = Drop(@, Len(got))]
               /\ readRemain' = [readRemain EXCEPT ![r] = @ - Len(got)]
               /\ delivered' = [delivered EXCEPT ![r] = @ \o got]
               /\ rpc' = [rpc EXCEPT ![r] = "rd_idle"]
               /\ rres' = [rres EXCEPT ![r] = "data"]
               /\ obs' = [obs EXCEPT ![r].lateRead = @ \/ obs[r].cwDone,
                                     ![r].afterErr = @ \/ obs[r].decErr]
               /\ UNCHANGED << crashed, closedRead, peerLastSeen, rxSeq >>
       ELSE IF ~HasFrame(r)
       THEN /\ rpc' = [rpc EXCEPT ![r] = "rd_raw"]
            /\ UNCHANGED << crashed, closedRead, rbuf, readRemain, peerLastSeen,
                            rxSeq, delivered, obs, rres >>
       ELSE IF HeadType(r) = MsgTypeData
       THEN LET got == Take(Drop(rbuf[r], FrameHeaderSize), Min(HeadLen(r), rreq[r]))
            IN /\ peerLastSeen' = [peerLastSeen EXCEPT ![r] = now]
               /\ rbuf' = [rbuf EXCEPT ![r] = Drop(@, FrameHeaderSize + Len(got))]
               /\ readRemain' = [readRemain EXCEPT ![r] = HeadLen(r) - Len(got)]
               /\ delivered' = [delivered EXCEPT ![r] = @ \o got]
               /\ rpc' = [rpc EXCEPT ![r] = "rd_idle"]
               /\ rres' = [rres EXCEPT ![r] = "data"]
               /\ obs' = [obs EXCEPT ![r].lateRead = @ \/ obs[r].cwDone,
                                     ![r].afterErr = @ \/ obs[r].decErr]
               /\ UNCHANGED << crashed, closedRead, rxSeq >>
       ELSE /\ peerLastSeen' = [peerLastSeen EXCEPT ![r] = now]
            /\ rbuf' = [rbuf EXCEPT ![r] = Drop(@, Consumed(r))]
            /\ closedRead' = [closedRead EXCEPT ![r] =
                                IF HeadType(r) = MsgTypeFin THEN 1 ELSE @]
            /\ rxSeq' = [rxSeq EXCEPT ![r] =
                           IF HeadType(r) = MsgTypeRotate /\ rotator[r]
                           THEN @ + 1 ELSE @]
            /\ obs' = [obs EXCEPT ![r].rotRx =
                          IF HeadType(r) = MsgTypeRotate /\ rotator[r]
                          THEN @ + 1 ELSE @,
                                  ![r].skipped = @ \cup {HeadType(r)}]
            /\ IF HeadType(r) = MsgTypeFin
               THEN /\ rpc' = [rpc EXCEPT ![r] = "rd_idle"]
                    /\ rres' = [rres EXCEPT ![r] = "eof"]
               ELSE /\ rpc' = [rpc EXCEPT ![r] = "rd_top"]
                    /\ UNCHANGED rres
            /\ UNCHANGED << crashed, readRemain, delivered >>
    /\ UNCHANGED << now, closed, closedWrite, closeOnce, ctxDone, bufs, wbuf, plain,
                    fmu, nbuf, noiseVars, lastActive, cfgVars, raw, blocksWritten,
                    pc, ret, wreq, rreq, kaNext, janVars, sent, wres >>

\* The unread bytes of the peer's resource that side r reads (none while the
\* peer has not created it: 404).
Avail(r) ==
    IF rxSeq[r] <= Len(raw[Peer(r)]) THEN raw[Peer(r)][rxSeq[r]] ELSE <<>>
\* A raw read returns all that is available, or a first part of it.
ReadSizes(r) == {Len(Avail(r))} \cup {k \in {RawCut} : k < Len(Avail(r))}

\* ReadRaw and Noise.ReadFrom (outside rmu).  ErrNoData: poll.Sleep, continue.
ReadRaw(r) ==
    /\ ~crashed[r]
    /\ rpc[r] = "rd_raw"
    /\ IF ctxDone[r]
       THEN /\ rpc' = [rpc EXCEPT ![r] = "rd_idle"]
            /\ rres' = [rres EXCEPT ![r] = IF closed[r] = 1 THEN "closed" ELSE "canceled"]
            /\ UNCHANGED << crashed, nbuf, raw >>
       ELSE IF Len(Avail(r)) = 0
       THEN /\ rpc' = [rpc EXCEPT ![r] = "rd_top"]
            /\ UNCHANGED << crashed, nbuf, raw, rres >>
       ELSE IF ~bufs[r]
       THEN /\ crashed' = [crashed EXCEPT ![r] = TRUE]
            /\ UNCHANGED << nbuf, raw, rpc, rres >>
       ELSE \E k \in ReadSizes(r) :
            /\ nbuf' = [nbuf EXCEPT ![r] = @ \o Take(Avail(r), k)]
            /\ raw' = [raw EXCEPT ![Peer(r)][rxSeq[r]] = Drop(@, k)]
            /\ rpc' = [rpc EXCEPT ![r] = "rd_unseal"]
            /\ UNCHANGED << crashed, rres >>
    /\ obs' = [obs EXCEPT ![r].nap.pending = @ \/ (rpc'[r] = "rd_unseal")]
    /\ UNCHANGED << now, flagVars, wbuf, plain, fmu, rbuf, readRemain, noiseVars,
                    lastActive, peerLastSeen, cfgVars, rxSeq, blocksWritten, pc,
                    ret, wreq, rreq, kaNext, janVars, sent, delivered, wres >>

\* ReadRaw answers ErrNoData after at most RawReadMax, then poll.Sleep: no
\* sleep after a Reset, else a sleep of Cur, which doubles up to Steady.
ReadNoData(r) ==
    /\ ~crashed[r]
    /\ rpc[r] = "rd_raw"
    /\ ~ctxDone[r]
    /\ Len(Avail(r)) = 0
    /\ \E d \in 0..RawReadMax :
         wake' = [wake EXCEPT ![r] =
                    [from |-> now, at |-> now + d + Blocked(poll[r])]]
    /\ poll' = [poll EXCEPT ![r] = Sleep(@)]
    /\ obs' = [obs EXCEPT ![r].nap = NapSleep(@, poll[r])]
    /\ rpc' = [rpc EXCEPT ![r] = "rd_sleep"]
    /\ UNCHANGED << now, crashed, flagVars, wbuf, plain, fmu, readVars, noiseVars,
                    lastActive, peerLastSeen, lkVars, rotator, acc, readDeadline, wire, tried, dial,
                    rawVars, pc, ret, wreq, rreq, kaNext, janVars, sent, delivered,
                    wres, rres >>

\* The raw read and the sleep are over: continue at the top of Read's loop.
ReadWake(r) ==
    /\ ~crashed[r]
    /\ rpc[r] = "rd_sleep"
    /\ wake[r].at <= now
    /\ rpc' = [rpc EXCEPT ![r] = "rd_top"]
    /\ UNCHANGED << now, crashed, flagVars, wbuf, plain, fmu, readVars, noiseVars,
                    lastActive, peerLastSeen, cfgVars, rawVars, pc, ret, wreq,
                    rreq, kaNext, janVars, sent, delivered, wres, rres, obs >>

\* SetReadDeadline(t); t = 0 stands for the zero time.
SetReadDeadline(r, t) ==
    /\ ~crashed[r]
    /\ readDeadline' = [readDeadline EXCEPT ![r] = t]
    /\ obs' = [obs EXCEPT ![r].dset = now]
    /\ UNCHANGED << now, crashed, flagVars, wbuf, plain, fmu, readVars, noiseVars,
                    lastActive, peerLastSeen, lkVars, rotator, acc, poll, wake, wire, tried, dial,
                    rawVars, pc, ret, wreq, rdVars, kaNext, janVars, sent,
                    delivered, wres, rres >>

\* SetWriteDeadline(t), and SetDeadline(t), which stores t in both deadlines.
SetWriteDeadline(s, t, both) ==
    /\ ~crashed[s]
    /\ writeDeadline' = [writeDeadline EXCEPT ![s] = t]
    /\ readDeadline' = IF both THEN [readDeadline EXCEPT ![s] = t]
                       ELSE readDeadline
    /\ obs' = IF both THEN [obs EXCEPT ![s].dset = now] ELSE obs
    /\ UNCHANGED << now, crashed, flagVars, wbuf, plain, fmu, readVars, noiseVars,
                    lastActive, peerLastSeen, lk, rotator, acc, poll, wake, wire,
                    tried, dial, rawVars, pc, ret, wreq, rdVars, kaNext, janVars,
                    sent, delivered, wres, rres >>

\* A cleanup every side runs (variant).
CleansTokenAlways(r) == TRUE
\* The test inside cleanupToken.Do: only the responder deletes the token.
CleansToken(r) == ~IsInitiator(r)

\* Read's unseal loop under rmu, then poll.Reset and back to the top.  After
\* the first chunk it unseals, cleanupToken.Do runs (obs.cleanupToken: the
\* Once has run) and, on the responder, starts the goroutine that calls
\* DeleteToken (obs.deleteTokens counts the calls).
ReadUnseal(r) ==
    /\ ~crashed[r]
    /\ rpc[r] = "rd_unseal"
    /\ IF ~bufs[r]
       THEN /\ crashed' = [crashed EXCEPT ![r] = TRUE]
            /\ UNCHANGED << rbuf, nbuf, cs1, cs2, rpc, rres >>
       ELSE LET u == UnsealLoop(RecvKey(r), RecvNonce(r), nbuf[r], rbuf[r])
            IN /\ rbuf' = [rbuf EXCEPT ![r] = u.rb]
               /\ nbuf' = [nbuf EXCEPT ![r] = u.nb]
               /\ cs1' = IF IsInitiator(r) THEN cs1 ELSE [cs1 EXCEPT ![r] = u.nonce]
               /\ cs2' = IF IsInitiator(r) THEN [cs2 EXCEPT ![r] = u.nonce] ELSE cs2
               /\ IF u.err
                  THEN /\ rpc' = [rpc EXCEPT ![r] = "rd_idle"]
                       /\ rres' = [rres EXCEPT ![r] = "decrypt"]
                  ELSE /\ rpc' = [rpc EXCEPT ![r] = "rd_top"]
                       /\ UNCHANGED rres
               /\ UNCHANGED crashed
    /\ LET back == rpc'[r] = "rd_top"
           unsealed == IF IsInitiator(r) THEN cs2'[r] # cs2[r]
                       ELSE cs1'[r] # cs1[r]
           first == unsealed /\ ~obs[r].cleanupToken
       IN  /\ poll' = [poll EXCEPT ![r] = IF back THEN Reset(@) ELSE @]
           /\ obs' = [obs EXCEPT ![r].decErr = @ \/ (rres'[r] = "decrypt"),
                                 ![r].nap = IF back THEN NapReset ELSE @,
                                 ![r].cleanupToken = @ \/ unsealed,
                                 ![r].deleteTokens =
                                    IF first /\ CleansToken(r) THEN @ + 1 ELSE @]
    /\ UNCHANGED << now, flagVars, wbuf, plain, fmu, readRemain, lastActive,
                    peerLastSeen, lkVars, rotator, acc, readDeadline, wake, wire, tried,
                    dial, rawVars, pc, ret, wreq, rreq, kaNext, janVars, sent,
                    delivered, wres >>

\* The storage service hands back an altered byte: the last byte (a tag byte)
\* of what is unread in the resource side s writes to is changed, once.
Corrupt(s) ==
    /\ ~obs[s].corrupted
    /\ Len(raw[s][Len(raw[s])]) > 0
    /\ raw' = [raw EXCEPT ![s][Len(raw[s])][Len(raw[s][Len(raw[s])])] = @ + 1]
    /\ obs' = [obs EXCEPT ![s].corrupted = TRUE]
    /\ UNCHANGED << now, crashed, flagVars, wbuf, plain, fmu, readVars, noiseVars,
                    lastActive, peerLastSeen, cfgVars, rxSeq, blocksWritten, pc,
                    ret, wreq, rdVars, kaNext, janVars, sent, delivered, wres,
                    rres >>

\* ------------------------------------------------------ the bare session

\* Noise.SealData by side s on n fresh plaintext bytes; the sealed chunk is
\* on the storage from now on.
Seal(s, n) ==
    /\ Len(wire) < MaxChunks
    /\ LET pt == AppBytes(Len(wire) * MaxWriteLen, n)
       IN wire' = Append(wire, [from |-> s, seq |-> SendNonce(s), pt |-> pt,
                                chunk |-> SealData(SendKey(s), SendNonce(s), pt)])
    /\ AdvanceSend(s)
    /\ UNCHANGED << now, crashed, flagVars, wbuf, plain, fmu, readVars, lastActive,
                    peerLastSeen, lkVars, rotator, acc, readDeadline, poll, wake, tried, dial,
                    rawVars,
                    pc, ret, wreq, rdVars, kaNext, janVars, sent, delivered, wres,
                    rres, obs >>

\* Noise.UnsealData by side r on the i-th chunk seen so far, whoever sealed
\* it and whether r has seen it before; as in Read's loop the plaintext of a
\* chunk that verifies is appended to the read buffer.
Unseal(r, i) ==
    /\ Len(tried) < MaxUnseals
    /\ i \in 1..Len(wire)
    /\ LET data == wire[i].chunk
           kind == UnsealKind(RecvKey(r), RecvNonce(r), data)
       IN /\ tried' = Append(tried,
                       [to |-> r, i |-> i, expected |-> RecvNonce(r), kind |-> kind,
                        plain |-> IF kind = "ok" THEN UnsealPlain(data) ELSE <<>>,
                        rest |-> IF kind = "ok" THEN UnsealRest(data) ELSE <<>>])
          /\ rbuf' = IF kind = "ok"
                     THEN [rbuf EXCEPT ![r] = @ \o UnsealPlain(data)] ELSE rbuf
          /\ cs1' = IF kind = "ok" /\ ~IsInitiator(r)
                    THEN [cs1 EXCEPT ![r] = @ + 1] ELSE cs1
          /\ cs2' = IF kind = "ok" /\ IsInitiator(r)
                    THEN [cs2 EXCEPT ![r] = @ + 1] ELSE cs2
    /\ UNCHANGED << now, crashed, flagVars, wbuf, plain, fmu, nbuf, readRemain,
                    lastActive, peerLastSeen, lkVars, rotator, acc, readDeadline, poll, wake,
                    wire, dial, rawVars, pc, ret, wreq, rdVars, kaNext, janVars, sent,
                    delivered, wres, rres, obs >>

\* ----------------------------------------------------------------- poller
\* What changes in a call of a poller's method is the poller (and what was
\* seen of it).
PollOnly ==
    UNCHANGED << now, crashed, flagVars, wbuf, plain, fmu, readVars, noiseVars,
                 lastActive, peerLastSeen, lkVars, rotator, acc, readDeadline, wake, wire,
                 tried, dial, rawVars, pc, ret, wreq, rdVars, kaNext, janVars,
                 sent, delivered, wres, rres >>
\* The values given to NewAdaptivePoll: none, negative, small, and large
\* enough for their double to leave the range of a Duration.
Durations == {-1, 0, 1, 2, 3, (MaxDuration + 1) \div 2, MaxDuration}

\* p.Sleep() on the poller of side s, with no Read running.
PollSleep(s) ==
    /\ poll' = [poll EXCEPT ![s] = Sleep(@)]
    /\ obs' = [obs EXCEPT ![s].nap = NapSleep(@, poll[s])]
    /\ PollOnly

\* p.Reset() on the poller of side s, with no Read running.
PollReset(s) ==
    /\ poll' = [poll EXCEPT ![s] = Reset(@)]
    /\ obs' = [obs EXCEPT ![s].nap = NapReset]
    /\ PollOnly

\* ----------------------------------------------------------------- Accept
\* What changes in a step of the handshake exchange is the record acc only.
AcceptOnly ==
    UNCHANGED << now, crashed, flagVars, wbuf, plain, fmu, readVars, noiseVars,
                 lastActive, peerLastSeen, lkVars, rotator, readDeadline, poll, wake, wire,
                 tried, dial, rawVars, pc, ret, wreq, rdVars, kaNext, janVars,
                 sent, delivered, wres, rres, obs >>

\* PostHandshake: a new handshake record whose payload is the conn_id c.
\* Dial uploads one with a fresh uuid; any holder of the handshake token can
\* upload any payload, the empty one included.
PostHandshake(c) ==
    /\ acc.posted < MaxRecords
    /\ acc' = [acc EXCEPT !.posted = @ + 1, !.posts[c] = @ + 1,
                          !.records = Append(@, [id |-> acc.posted + 1, conn |-> c])]
    /\ AcceptOnly

\* Dial from the GetToken that finds a token to its return: the dialer reads
\* msg2 with its own session, which completes the handshake with the keys of
\* the responder session that wrote this msg2, opens its transport and
\* returns the connection.
DialToken(c) ==
    /\ c # "" /\ acc.posts[c] > 0
    /\ acc.tokens[c] # 0
    /\ acc.dialed[c] = 0
    /\ acc' = [acc EXCEPT !.dialed[c] = acc.tokens[c]]
    /\ AcceptOnly

\* A listener that takes every conn_id for new (a variant of AlreadyLive).
NeverLive(c) == FALSE
\* l.conns.Load(connID) finds an entry.
AlreadyLive(c) == acc.conns[c] # 0

\* The top of Accept's loop: the context is live and GetHandshakes returns the
\* records now on the storage.  (An error of GetHandshakes and an empty list
\* lead back here after acceptPoll with nothing changed.)
AcceptScan ==
    /\ ~lis.cancelled
    /\ acc.scan = << >>
    /\ acc.records # << >>
    /\ acc' = [acc EXCEPT !.scan = acc.records]
    /\ AcceptOnly

\* The steps at which the body of Accept's loop can stop for one record
\* before NewTransport is called:
\*   "noise"      NewNoiseServer fails
\*   "read"       ReadMessage rejects the payload
\*   "session"    CreateSession fails
\*   "token"      PostToken fails
\*   "posted"     every step up to PostToken succeeds
Outcomes == {"noise", "read", "session", "token", "posted"}

\* How the rest of the pass can end once the token is posted:
\*   "transport"  NewTransport fails before it has created the rx blob
\*   "kept"       every step succeeds but DeleteHandshake, whose error is dropped
\*   "ok"         every step succeeds
Transports == {"transport", "kept", "ok"}

\* A pass that stops and returns to the head of the record loop (variant).
StoppedEndsScan(a) == [a EXCEPT !.scan = << >>, !.pass = 0]

\* The `continue` of Accept's record loop: the pass stops and the loop goes
\* on with the next record of the list (and, after the last one, sleeps and
\* scans again).
Stopped(a) == [a EXCEPT !.scan = Tail(@), !.pass = 0]

\* The first half of one pass of the body of Accept's loop over the next
\* record of the list, up to and including PostToken.  The responder session
\* is numbered n (0 when NewNoiseServer fails).
AcceptRecord(outcome) ==
    /\ acc.scan # << >>
    /\ acc.pass = 0
    /\ acc.sessions < MaxSessions
    /\ LET hs == Head(acc.scan)
           c == hs.conn
           n == acc.sessions + 1
           made == [acc EXCEPT !.sessions = n]
       IN  acc' =
             CASE outcome = "noise" -> Stopped(acc)
               [] outcome = "read" -> Stopped(made)
               [] c = "" ->
                    Stopped([made EXCEPT !.skipped = @ \cup {"empty"}])
               [] AlreadyLive(c) ->
                    Stopped([made EXCEPT !.skipped = @ \cup {"live"}])
               [] outcome = "session" -> Stopped(made)
               [] outcome = "token" ->
                    Stopped([made EXCEPT !.created = @ \cup {c}])
               [] OTHER ->
                    [made EXCEPT !.created = @ \cup {c}, !.tokens[c] = n,
                                 !.pass = n]
    /\ AcceptOnly

\* The second half of the pass: NewTransport, which on the responder creates
\* the tx blob (res-0) and then the rx blob (req-0), replacing what a blob of
\* that name held; then DeleteHandshake, newConn, conns.Store and the return.
AcceptTransport(outcome) ==
    /\ acc.pass # 0
    /\ LET hs == Head(acc.scan)
           c == hs.conn
           n == acc.pass
       IN  acc' =
             IF outcome = "transport"
             THEN Stopped(acc)
             ELSE [acc EXCEPT
                     !.blobs = @ \cup {c},
                     !.erased = @ \/ c \in acc.wrote,
                     !.wrote = @ \ {c},
                     !.records = IF outcome = "ok"
                                 THEN SelectSeq(@, LAMBDA r : r.id # hs.id)
                                 ELSE @,
                     !.replaced = @ \/ acc.conns[c] # 0,
                     !.conns[c] = n,
                     !.returned = @ \cup {<< c, n >>},
                     !.scan = << >>,
                     !.pass = 0]
    /\ AcceptOnly

\* A WriteRaw of the dialer on the connection Dial returned for c: AppendBlock
\* on req-0, which fails when that blob does not exist.
DialWriteRaw(c) ==
    /\ acc.dialed[c] # 0
    /\ acc' = IF c \in acc.blobs
              THEN [acc EXCEPT !.wrote = @ \cup {c}]
              ELSE [acc EXCEPT !.writeFailed = TRUE]
    /\ AcceptOnly

\* The janitor's callback for the connection stored under c when that
\* connection is closed in both directions or idle: it closes it, calls
\* DeleteToken and CleanupSession, whose errors it drops (tokenGone,
\* sessionGone: they took effect), and deletes the entry.
AcceptEvict(c, tokenGone, sessionGone) ==
    /\ acc.conns[c] # 0
    /\ acc' = [acc EXCEPT
                 !.tokens[c] = IF tokenGone THEN 0 ELSE @,
                 !.created = IF sessionGone THEN @ \ {c} ELSE @,
                 !.blobs = IF sessionGone THEN @ \ {c} ELSE @,
                 !.wrote = IF sessionGone THEN @ \ {c} ELSE @,
                 !.returned = @ \ {<< c, acc.conns[c] >>},
                 !.conns[c] = 0]
    /\ AcceptOnly

\* ------------------------------------------------------- the three mutexes
\* The lock discipline of one connection: which goroutine holds wmu, rmu and
\* fmu at each point of Write, CloseWrite, Close, keepAlive, flush and Read.
\* The buffers are reduced to the number of chunks the write buffer holds.
LockOnly ==
    UNCHANGED << now, crashed, flagVars, wbuf, plain, fmu, readVars, noiseVars,
                 lastActive, peerLastSeen, writeDeadline, rotator, acc,
                 readDeadline, poll, wake, wire, tried, dial, rawVars, pc, ret,
                 wreq, rdVars, kaNext, janVars, sent, delivered, wres, rres,
                 obs >>

\* An Unlock that leaves the mutex locked (variant).
UnlockForgets(m, g) == m
\* m.Unlock() by goroutine g.
Unlock(m, g) == IF m = g THEN None ELSE m
\* A function that returns without running its deferred call (variant).
DeferForgets(m, g) == m
\* flush's `defer c.fmu.Unlock()`, run at each of its returns.
DeferUnlock(m, g) == IF m = g THEN None ELSE m

\* The calls a goroutine makes.
Ops(g) ==
    CASE g = "w" -> {"write", "closewrite"}
      [] g = "c" -> {"closewrite", "close"}
      [] g = "k" -> {"ping"}
      [] OTHER -> {}

\* Goroutine g enters Write, CloseWrite, Close or the keep-alive tick and
\* passes the checks made before any lock is taken; a call the checks turn
\* down returns at once and leaves no trace.
Enter(g, op) ==
    /\ lk.pc[g] = "idle"
    /\ op \in Ops(g)
    /\ IF op = "close"
       THEN /\ ~lk.once
            /\ lk' = [lk EXCEPT !.once = TRUE, !.closed = TRUE,
                                !.pc[g] = "flush", !.op[g] = "close1"]
       ELSE /\ ~lk.closed /\ ~lk.closedWrite
            /\ lk' = [lk EXCEPT !.closedWrite = @ \/ op = "closewrite",
                                !.pc[g] = "append", !.op[g] = op]
    /\ LockOnly

\* c.wmu.Lock() before BuildFrame.
AppendLock(g) ==
    /\ lk.pc[g] = "append"
    /\ lk.wmu = None
    /\ lk' = [lk EXCEPT !.wmu = g, !.pc[g] = "build"]
    /\ LockOnly

\* BuildFrame into the write buffer, c.wmu.Unlock(), and the call of flush.
AppendUnlock(g) ==
    /\ lk.pc[g] = "build"
    /\ lk' = [lk EXCEPT !.n = Min(@ + 1, MaxPending),
                        !.wmu = Unlock(@, g),
                        !.pc[g] = "flush"]
    /\ LockOnly

\* c.fmu.Lock() at the head of flush.
FlushLock(g) ==
    /\ lk.pc[g] = "flush"
    /\ lk.fmu = None
    /\ lk' = [lk EXCEPT !.fmu = g, !.pc[g] = "top"]
    /\ LockOnly

\* c.wmu.Lock() at the head of flush's loop.
FlushTop(g) ==
    /\ lk.pc[g] = "top"
    /\ lk.wmu = None
    /\ lk' = [lk EXCEPT !.wmu = g, !.pc[g] = "look"]
    /\ LockOnly

\* flush returns to its caller, which goes on: Write, CloseWrite and the
\* keep-alive tick are over; Close appends its FIN if closedWrite is 0, calls
\* flush again and then tears the connection down.
FlushReturn(l, g) ==
    LET u == [l EXCEPT !.fmu = DeferUnlock(@, g)]
    IN  CASE l.op[g] = "close1" ->
               [u EXCEPT !.op[g] = "close2",
                         !.pc[g] = IF l.closedWrite THEN "flush" ELSE "append"]
          [] l.op[g] = "close2" -> [u EXCEPT !.op[g] = None, !.pc[g] = "tear"]
          [] OTHER -> [u EXCEPT !.op[g] = None, !.pc[g] = "idle"]

\* What flush does under wmu: "empty" the buffer is empty, it unlocks and
\* returns nil; "rotate" ShouldRotate holds, it unlocks and goes to send a
\* ROTATE frame; "drain" it takes k chunks with Next and unlocks.
FlushLook(g, what, k) ==
    /\ lk.pc[g] = "look"
    /\ LET u == [lk EXCEPT !.wmu = Unlock(@, g)]
       IN  CASE what = "empty" -> lk.n = 0 /\ lk' = FlushReturn(u, g)
             [] what = "rotate" -> lk.n > 0 /\ lk' = [u EXCEPT !.pc[g] = "seal"]
             [] OTHER ->
                  /\ k \in 1..lk.n
                  /\ lk' = [u EXCEPT !.n = @ - k, !.pc[g] = "seal"]
    /\ LockOnly

\* SealData, and on success the call of WriteRaw.
FlushSeal(g, ok) ==
    /\ lk.pc[g] = "seal"
    /\ lk' = IF ok THEN [lk EXCEPT !.pc[g] = "raw"] ELSE FlushReturn(lk, g)
    /\ LockOnly

\* WriteRaw (and RotateTX after a ROTATE frame) returns: flush goes round
\* its loop again, or returns the error.
FlushRawDone(g, ok) ==
    /\ lk.pc[g] = "raw"
    /\ lk' = IF ok THEN [lk EXCEPT !.pc[g] = "top"] ELSE FlushReturn(lk, g)
    /\ LockOnly

\* The end of Close: transport.Close, cancel, and the Reset of the read,
\* write and scratch buffers, made without a lock.
CloseDone(g) ==
    /\ lk.pc[g] = "tear"
    /\ lk' = [lk EXCEPT !.pc[g] = "idle", !.n = 0]
    /\ LockOnly

\* The head of Read's loop: the closed check before c.rmu.Lock().
ReadEnter(g) ==
    /\ g \in Readers
    /\ lk.pc[g] \in {"idle", "rtop"}
    /\ lk' = [lk EXCEPT !.pc[g] = IF lk.closed THEN "idle" ELSE "rlock"]
    /\ LockOnly

\* c.rmu.Lock(), at the head of the loop or before the unseal loop.
ReadLock(g) ==
    /\ lk.pc[g] \in {"rlock", "rlock2"}
    /\ lk.rmu = None
    /\ lk' = [lk EXCEPT !.rmu = g,
                        !.pc[g] = IF lk.pc[g] = "rlock" THEN "rlook" ELSE "unseal"]
    /\ LockOnly

\* What Read does under rmu with the read buffer and readRemain: "return"
\* it returns (io.EOF, the deadline, leftover payload, a DATA frame, a FIN);
\* "skip" it consumes a PING, ROTATE or unknown frame and continues; "more"
\* no complete frame is buffered and it calls ReadRaw.  It unlocks in each.
ReadLook(g, what) ==
    /\ lk.pc[g] = "rlook"
    /\ lk' = [lk EXCEPT !.rmu = Unlock(@, g),
                        !.pc[g] = CASE what = "return" -> "idle"
                                    [] what = "skip" -> "rtop"
                                    [] OTHER -> "rraw"]
    /\ LockOnly

\* ReadRaw returns: "nodata" Read sleeps and continues, "err" it returns the
\* error, "ok" it starts to copy the stream into the scratch buffer.
ReadRawDone(g, res) ==
    /\ lk.pc[g] = "rraw"
    /\ lk' = [lk EXCEPT !.pc[g] = CASE res = "nodata" -> "rtop"
                                    [] res = "err" -> "idle"
                                    [] OTHER -> "from"]
    /\ LockOnly

\* c.bufs.Noise.ReadFrom(rawStream) ends; Read closes the stream and returns
\* the error or goes to lock rmu for the unseal loop.
ReadFromDone(g, ok) ==
    /\ lk.pc[g] = "from"
    /\ lk' = [lk EXCEPT !.pc[g] = IF ok THEN "rlock2" ELSE "idle"]
    /\ LockOnly

\* The unseal loop ends: on a decryption error Read unlocks and returns it,
\* otherwise it unlocks, resets the poller and continues.
ReadUnsealDone(g, ok) ==
    /\ lk.pc[g] = "unseal"
    /\ lk' = [lk EXCEPT !.rmu = Unlock(@, g),
                        !.pc[g] = IF ok THEN "rtop" ELSE "idle"]
    /\ LockOnly

\* ------------------------------------------------------------------- Dial
\* What changes in a step of Dial is the record dial only (and the clock
\* never).
DialOnly ==
    UNCHANGED << now, crashed, flagVars, wbuf, plain, fmu, readVars, noiseVars,
                 lastActive, peerLastSeen, lkVars, rotator, acc, readDeadline, poll, wake, wire,
                 tried, rawVars, pc, ret, wreq, rdVars, kaNext, janVars, sent,
                 delivered, wres, rres, obs >>
Return(res) == dial' = [dial EXCEPT !.pc = "done", !.res = res, !.at = now]

\* Dial up to the poll loop: PostHandshake fails (Dial returns the error) or
\* succeeds (dialCtx expires connectTimeout from now).
DialStart ==
    /\ dial.pc = "idle"
    /\ \/ Return("error")
       \/ dial' = [dial EXCEPT !.pc = "poll", !.until = now + ConnectTimeout]
    /\ DialOnly

\* A dialCtx that never expires (a variant of DialExpired).
DialNeverExpires == FALSE
\* dialCtx is done.
DialExpired == now >= dial.until

\* driver.GetToken(dialCtx, connID): with dialCtx done the driver returns the
\* context's error; else it answers ErrNoData, another error, or a token
\* message, which noise.ReadMessage accepts or not and which completes the
\* session or not.
DialGetToken ==
    /\ dial.pc = "poll"
    /\ IF DialExpired
       THEN Return("error")
       ELSE \E answer \in {"nodata", "error", "garbage", "partial", "tokens"} :
              CASE answer = "nodata" ->
                     dial' = [dial EXCEPT !.pc = "select", !.polledAt = now,
                                          !.wake = now + DataPoll,
                                          !.polls = @ + 1]
                [] answer = "error" -> Return("error")
                [] answer = "garbage" -> Return("error")
                [] OTHER ->
                     dial' = [dial EXCEPT !.pc = "token",
                                          !.complete = (answer = "tokens")]
    /\ DialOnly

\* The select after ErrNoData: dialCtx.Done() wins at the connect timeout.
DialTimeout ==
    /\ dial.pc = "select"
    /\ DialExpired
    /\ Return("timeout")
    /\ DialOnly
\* The select after ErrNoData: time.After(cfg.dataPoll) fires, poll again.
DialWake ==
    /\ dial.pc = "select"
    /\ now >= dial.wake
    /\ dial' = [dial EXCEPT !.pc = "poll"]
    /\ DialOnly

\* noise.IsComplete() after ReadMessage.
IsComplete == dial.complete

\* After the token message was read and decoded: ErrHandshakeIncomplete
\* unless the session is complete, then NewTransport (which may fail) and
\* newConn.
DialFinish ==
    /\ dial.pc = "token"
    /\ IF ~IsComplete
       THEN Return("error")
       ELSE Return("error") \/ Return("conn")
    /\ DialOnly

\* ------------------------------------------------------------------- time
\* Goroutine positions at which a goroutine waits for a call or a tick.
Rest == {"idle", "off", "ka_wait", "ka_done"}
\* The clock advances by one unit.  Code takes no time: every goroutine that
\* can run flush is at rest, and a ticker tick that is due was taken.
Tick(horizon) ==
    /\ now < horizon
    /\ \A s \in Sides :
         \/ crashed[s]
         \/ /\ \A p \in Procs : pc[s][p] \in Rest
            /\ pc[s]["ka"] = "ka_wait" => (kaNext[s] > now /\ ~ctxDone[s])
    /\ jan \notin {"off", "stopped"} =>
           (jan = "wait" /\ janNext > now /\ ~lis.cancelled)
    /\ lis.pc \in {"idle", "closed"}
    /\ now' = now + 1
    /\ UNCHANGED << crashed, flagVars, wbuf, plain, fmu, readVars, noiseVars,
                    lastActive, peerLastSeen, cfgVars, rawVars, pc, ret, wreq,
                    rdVars, kaNext, janVars, sent, delivered, wres, rres, obs >>

\* The clock where the Read goroutines are timed as well: a Read in progress
\* is in its raw read or sleep, which has not ended yet.
TickPolled(horizon) ==
    /\ \A r \in Sides :
         \/ rpc[r] = "rd_idle"
         \/ rpc[r] = "rd_sleep" /\ wake[r].at > now
    /\ Tick(horizon)

\* The clock while Dial runs: Dial is in its select, and neither dialCtx nor
\* the poll timer is due.
TickDial(horizon) ==
    /\ \/ dial.pc \in {"idle", "done"}
       \/ dial.pc = "select" /\ now < dial.wake /\ ~DialExpired
    /\ Tick(horizon)

\* ---------------------------------------------------------------- janitor
\* A janitor tick for side B's connection: it is evicted when it is closed in
\* both directions or when nothing was received for more than idleTimeout.
JanitorTick ==
    /\ jan = "wait"
    /\ now = janNext
    /\ janNext' = janNext + JanitorPeriod
    /\ IF /\ live
          /\ \/ closed["B"] = 1 /\ closedRead["B"] = 1
             \/ now - peerLastSeen["B"] > IdleTimeout
       THEN /\ jan' = "closing"
            /\ obs' = [obs EXCEPT !["B"].evictIdle =
                          ~(closed["B"] = 1 /\ closedRead["B"] = 1)]
       ELSE UNCHANGED << jan, obs >>
    /\ UNCHANGED << now, crashed, flagVars, wbuf, plain, fmu, readVars, noiseVars,
                    lastActive, peerLastSeen, cfgVars, rawVars, pc, ret, wreq,
                    rdVars, kaNext, live, lis, sent, delivered, wres, rres >>

\* The janitor's conn.Close() runs as goroutine "cl" of side B (CloseCall and
\* the steps after it); when it has returned the janitor deletes the token,
\* cleans up the session and removes the connection from Listener.conns.
JanitorClose == jan = "closing" /\ closeOnce["B"] # "done" /\ CloseCall("B", "cl")
JanitorEvict ==
    /\ jan = "closing"
    /\ pc["B"]["cl"] = "idle"
    /\ closeOnce["B"] = "done"
    /\ jan' = "wait"
    /\ live' = FALSE
    /\ lis' = [lis EXCEPT !.session = FALSE]
    /\ UNCHANGED << now, crashed, flagVars, wbuf, plain, fmu, readVars, noiseVars,
                    lastActive, peerLastSeen, cfgVars, rawVars, pc, ret, wreq,
                    rdVars, kaNext, janNext, sent, delivered, wres, rres, obs >>

\* The janitor's select finds l.cfg.ctx done and returns.
JanitorStop ==
    /\ jan = "wait"
    /\ lis.cancelled
    /\ jan' = "stopped"
    /\ UNCHANGED << now, crashed, flagVars, wbuf, plain, fmu, readVars, noiseVars,
                    lastActive, peerLastSeen, cfgVars, rawVars, pc, ret, wreq,
                    rdVars, kaNext, live, janNext, lis, sent, delivered, wres,
                    rres, obs >>

\* --------------------------------------------------------- Listener.Close
\* Listener.Close starts with l.cfg.cancel(): the listener's context and the
\* context of every accepted connection, which is derived from it, are done.
ListenerClose ==
    /\ lis.pc = "idle"
    /\ lis' = [lis EXCEPT !.cancelled = TRUE, !.pc = "closing"]
    /\ ctxDone' = [ctxDone EXCEPT !["B"] = TRUE]
    /\ UNCHANGED << now, crashed, closed, closedRead, closedWrite, closeOnce, bufs,
                    wbuf, plain, fmu, readVars, noiseVars, lastActive,
                    peerLastSeen, cfgVars, rawVars, pc, ret, wreq, rdVars, kaNext,
                    live, jan, janNext, sent, delivered, wres, rres, obs >>

\* conns.Range: conn.Close() on the connection in the map, run as goroutine
\* "lc" of side B (CloseCall and the steps after it).
ListenerCloseConn ==
    /\ lis.pc = "closing"
    /\ live
    /\ lis' = [lis EXCEPT !.pc = "ranged"]
    /\ pc["B"]["lc"] = "idle"
    /\ IF closeOnce["B"] = "new"
       THEN /\ closeOnce' = [closeOnce EXCEPT !["B"] = "running"]
            /\ closed' = [closed EXCEPT !["B"] = 1]
            /\ CallFlush("B", "lc", "close1")
            /\ obs' = [obs EXCEPT !["B"].closeSeq = @ + 1]
       ELSE IF closeOnce["B"] = "running"
       THEN /\ Goto("B", "lc", "cl_wait")
            /\ UNCHANGED << closeOnce, closed, ret, obs >>
       ELSE UNCHANGED << closeOnce, closed, pc, ret, obs >>
    /\ UNCHANGED << now, crashed, closedRead, closedWrite, ctxDone, bufs, wbuf, plain,
                    fmu, readVars, noiseVars, lastActive, peerLastSeen, cfgVars,
                    rawVars, wreq, rdVars, kaNext, live, jan, janNext, sent,
                    delivered, wres, rres >>

\* After the Range: CleanupBootstrap under a fresh 30 s context, and
\* Listener.Close returns.  cleanup_session is not called.
ListenerCleanup ==
    /\ \/ lis.pc = "ranged" /\ pc["B"]["lc"] = "idle"
       \/ lis.pc = "closing" /\ ~live
    /\ lis' = [lis EXCEPT !.pc = "closed", !.bootstrap = FALSE]
    /\ UNCHANGED << now, crashed, flagVars, wbuf, plain, fmu, readVars, noiseVars,
                    lastActive, peerLastSeen, cfgVars, rawVars, pc, ret, wreq,
                    rdVars, kaNext, live, jan, janNext, sent, delivered, wres,
                    rres, obs >>

\* ---------------------------------------------------------- specifications
\* The Read goroutine of side r.
Reader(r) ==
    \/ \E n \in 1..MaxReadLen : ReadCall(r, n)
    \/ ReadTop(r)
    \/ ReadLocked(r)
    \/ ReadRaw(r)
    \/ ReadUnseal(r)

\* flush as run by the goroutines ps of side s, every raw write succeeding.
Flusher(s, ps) ==
    \/ \E p \in ps : FlushEmpty(s, p)
    \/ \E p \in ps : FlushDrain(s, p)
    \/ \E p \in ps : FlushSend(s, p)

\* keepAlive of side s.
KeepAlive(s) ==
    \/ KeepAliveTick(s)
    \/ KeepAliveAppend(s)

\* A writes with keepAlive running, every raw write succeeds, B reads.
NextStream ==
    \/ \E n \in 1..MaxWriteLen : WriteCall("A", n)
    \/ WriteAppend("A")
    \/ Flusher("A", {"wr", "ka"})
    \/ KeepAlive("A")
    \/ Reader("B")
    \/ Tick(PingInterval)
SpecStream == InitConn({"A"}, {}, FALSE) /\ [][NextStream]_vars

\* As SpecStream without a reader, and a raw write may fail; the clock runs
\* to MaxTime.
NextFail ==
    \/ \E n \in 1..MaxWriteLen : WriteCall("A", n)
    \/ WriteAppend("A")
    \/ Flusher("A", {"wr", "ka"})
    \/ \E p \in {"wr", "ka"} : FlushSendFail("A", p)
    \/ KeepAlive("A")
    \/ Tick(MaxTime)
SpecFail == InitConn({"A"}, {}, FALSE) /\ [][NextFail]_vars

\* As SpecStream over a transport that rotates its resources.
NextRotate ==
    \/ \E n \in 1..MaxWriteLen : WriteCall("A", n)
    \/ WriteAppend("A")
    \/ Flusher("A", {"wr", "ka"})
    \/ \E p \in {"wr", "ka"} : FlushRotate("A", p)
    \/ KeepAlive("A")
    \/ Reader("B")
    \/ Tick(PingInterval)
SpecRotate == InitConn({"A"}, {"A", "B"}, FALSE) /\ [][NextRotate]_vars

\* A writes, then shuts its write side with CloseWrite or Close, keepAlive
\* running; every raw write succeeds; B reads.
WriteOnce(s, n) == Len(sent[s]) = 0 /\ WriteCall(s, n)
NextShutdown ==
    \/ \E n \in {1, MaxWriteLen} : WriteOnce("A", n)
    \/ WriteAppend("A")
    \/ CloseWriteCall("A")
    \/ CloseWriteSwap("A")
    \/ CloseWriteAppend("A")
    \/ CloseCall("A", "wr")
    \/ CloseCheck("A", "wr")
    \/ CloseFin("A", "wr")
    \/ CloseTeardown("A", "wr")
    \/ Flusher("A", {"wr", "ka"})
    \/ FlushSendCanceled("A", "ka")
    \/ FlushNil("A", "ka")
    \/ KeepAlive("A")
    \/ KeepAliveStop("A")
    \/ Reader("B")
    \/ Tick(PingInterval)
SpecShutdown == InitConn({"A"}, {}, FALSE) /\ [][NextShutdown]_vars

\* B writes; A calls Write (successfully at most once) and CloseWrite in any
\* order and goes on reading what B writes until B's FIN.  No keepAlive
\* (cfg.pingInterval = 0).
NextHalfClose ==
    \/ WriteOnce("A", 1)
    \/ WriteCall("B", MaxWriteLen)
    \/ \E s \in Sides : WriteAppend(s)
    \/ \E s \in Sides : CloseWriteCall(s)
    \/ \E s \in Sides : CloseWriteSwap(s)
    \/ \E s \in Sides : CloseWriteAppend(s)
    \/ \E s \in Sides : Flusher(s, {"wr"})
    \/ Reader("A")
SpecHalfClose == InitConn({}, {}, FALSE) /\ [][NextHalfClose]_vars

\* Two goroutines of A call Close, each any number of times, around one Write;
\* B reads.  No keepAlive.
NextClose ==
    \/ \E n \in 1..MaxWriteLen : WriteOnce("A", n)
    \/ WriteAppend("A")
    \/ \E p \in {"wr", "cl"} : CloseCall("A", p)
    \/ \E p \in {"wr", "cl"} : CloseWait("A", p)
    \/ \E p \in {"wr", "cl"} : CloseCheck("A", p)
    \/ \E p \in {"wr", "cl"} : CloseFin("A", p)
    \/ \E p \in {"wr", "cl"} : CloseTeardown("A", p)
    \/ Flusher("A", {"wr", "cl"})
    \/ FlushSendCanceled("A", "wr")
    \/ FlushNil("A", "wr")
    \/ Reader("B")
SpecClose == InitConn({}, {}, FALSE) /\ [][NextClose]_vars

\* The dialer A is idle and its keepAlive sends PINGs; B is a connection of a
\* listener whose janitor runs; B's application may call Read, or not.
NextJanitor ==
    \/ Flusher("A", {"ka"})
    \/ KeepAlive("A")
    \/ Reader("B")
    \/ JanitorTick
    \/ JanitorClose
    \/ CloseCheck("B", "cl")
    \/ CloseFin("B", "cl")
    \/ CloseTeardown("B", "cl")
    \/ Flusher("B", {"cl"})
    \/ JanitorEvict
    \/ Tick(MaxTime)
SpecJanitor == InitConn({"A"}, {}, TRUE) /\ [][NextJanitor]_vars

\* An open connection on which nothing arrives: B's application sets read
\* deadlines and calls Read; every raw read answers ErrNoData.
NextDeadline ==
    \/ \E t \in 0..MaxDeadline : SetReadDeadline("B", t)
    \/ \E n \in 1..MaxReadLen : ReadCall("B", n)
    \/ ReadTop("B")
    \/ ReadLocked("B")
    \/ ReadNoData("B")
    \/ ReadWake("B")
    \/ TickPolled(MaxTime)
SpecDeadline == InitConn({}, {}, FALSE) /\ [][NextDeadline]_vars

\* One Dial call, started at any time, against a driver that answers each
\* GetToken as it likes.
NextDial ==
    \/ DialStart
    \/ DialGetToken
    \/ DialTimeout
    \/ DialWake
    \/ DialFinish
    \/ TickDial(MaxTime)
SpecDial == InitConn({}, {}, FALSE) /\ [][NextDial]_vars

\* A completed NN handshake and nothing else: either side seals chunks (of
\* 1, 2, ... plaintext bytes), and either side is handed any chunk seen so
\* far, in any order, any number of times.
NextNoise ==
    \/ \E s \in Sides : Seal(s, 1 + (Len(wire) % MaxWriteLen))
    \/ \E r \in Sides : \E i \in 1..MaxChunks : Unseal(r, i)
SpecNoise == InitConn({}, {}, FALSE) /\ [][NextNoise]_vars

\* A writes; a raw write may fail and the storage may alter a byte; B reads.
\* No keepAlive, no time.
NextDecrypt ==
    \/ \E n \in 1..MaxWriteLen : WriteCall("A", n)
    \/ WriteAppend("A")
    \/ Flusher("A", {"wr"})
    \/ FlushSendFail("A", "wr")
    \/ Corrupt("A")
    \/ Reader("B")
SpecDecrypt == InitConn({}, {}, FALSE) /\ [][NextDecrypt]_vars

\* B is a connection of a listener whose janitor runs; B's application
\* writes one slice, the application closes the listener at any moment; the
\* dialer A reads.
CloseSteps(s, p) ==
    \/ CloseWait(s, p)
    \/ CloseCheck(s, p)
    \/ CloseFin(s, p)
    \/ CloseTeardown(s, p)
NextListener ==
    \/ WriteOnce("B", MaxWriteLen)
    \/ WriteAppend("B")
    \/ Flusher("B", {"wr", "cl", "lc"})
    \/ \E p \in {"wr", "cl", "lc"} : FlushSendCanceled("B", p)
    \/ Reader("A")
    \/ JanitorTick
    \/ JanitorClose
    \/ CloseSteps("B", "cl")
    \/ JanitorEvict
    \/ JanitorStop
    \/ ListenerClose
    \/ ListenerCloseConn
    \/ CloseSteps("B", "lc")
    \/ ListenerCleanup
    \/ Tick(MaxTime)
SpecListener == InitConn({}, {}, TRUE) /\ [][NextListener]_vars

\* B is a connection of a listener; B's application reads what A writes and
\* writes itself while another goroutine closes the listener.  No time passes.
NextCancel ==
    \/ WriteOnce("A", 1)
    \/ WriteOnce("B", 1)
    \/ \E s \in Sides : WriteAppend(s)
    \/ Flusher("A", {"wr"})
    \/ Flusher("B", {"wr", "lc"})
    \/ \E p \in {"wr", "lc"} : FlushSendCanceled("B", p)
    \/ Reader("B")
    \/ JanitorStop
    \/ ListenerClose
    \/ ListenerCloseConn
    \/ CloseCheck("B", "lc")
    \/ CloseFin("B", "lc")
    \/ CloseTeardown("B", "lc")
    \/ ListenerCleanup
SpecCancel == InitConn({}, {}, TRUE) /\ [][NextCancel]_vars

\* The handshake exchange: dialers upload handshake records, one accept loop
\* processes them, dialers consume the tokens, the janitor removes
\* connections.
NextAccept ==
    \/ \E c \in ConnIds : PostHandshake(c)
    \/ AcceptScan
    \/ \E o \in Outcomes : AcceptRecord(o)
    \/ \E o \in Transports : AcceptTransport(o)
    \/ \E c \in ConnIds : DialToken(c)
    \/ \E c \in ConnIds, t, g \in BOOLEAN : AcceptEvict(c, t, g)
SpecAccept == InitConn({}, {}, TRUE) /\ [][NextAccept]_vars

\* A writes once, with keepAlive and rotation running, and buffers a frame of
\* an unknown type; B reads.
NextFrames ==
    \/ WriteOnce("A", MaxWriteLen)
    \/ WriteAppend("A")
    \/ SendUnknown("A")
    \/ Flusher("A", {"wr", "ka"})
    \/ \E p \in {"wr", "ka"} : FlushRotate("A", p)
    \/ KeepAlive("A")
    \/ Reader("B")
    \/ Tick(PingInterval)
SpecFrames == InitConn({"A"}, {"A", "B"}, FALSE) /\ [][NextFrames]_vars

\* A writes, half-closes and closes with keepAlive running; B, made with
\* cfg.pingInterval = 0, writes.
NextKeepAlive ==
    \/ WriteOnce("A", 1)
    \/ WriteAppend("A")
    \/ CloseWriteCall("A")
    \/ CloseWriteSwap("A")
    \/ CloseWriteAppend("A")
    \/ CloseCall("A", "wr")
    \/ CloseCheck("A", "wr")
    \/ CloseFin("A", "wr")
    \/ CloseTeardown("A", "wr")
    \/ Flusher("A", {"wr", "ka"})
    \/ FlushSendCanceled("A", "ka")
    \/ FlushNil("A", "ka")
    \/ \E s \in Sides : KeepAlive(s)
    \/ \E s \in Sides : KeepAliveStop(s)
    \/ WriteOnce("B", 1)
    \/ WriteAppend("B")
    \/ Flusher("B", {"wr"})
    \/ Tick(2 * PingInterval)
SpecKeepAlive == InitConn({"A"}, {}, FALSE) /\ [][NextKeepAlive]_vars

\* Both sides write and read; the storage may alter a chunk on its way to B.
NextToken ==
    \/ Len(sent["A"]) < 2 /\ WriteCall("A", 1)
    \/ WriteOnce("B", 1)
    \/ \E s \in Sides : WriteAppend(s)
    \/ \E s \in Sides : Flusher(s, {"wr"})
    \/ \E s \in Sides : ReadCall(s, MaxReadLen)
    \/ \E s \in Sides : ReadTop(s)
    \/ \E s \in Sides : ReadLocked(s)
    \/ \E s \in Sides : ReadRaw(s)
    \/ \E s \in Sides : ReadUnseal(s)
    \/ Corrupt("A")
SpecToken == InitConn({}, {}, FALSE) /\ [][NextToken]_vars

\* Write under a write deadline, with CloseWrite.
NextWriteDeadline ==
    \/ \E t \in {0, 1, MaxDeadline}, both \in BOOLEAN : SetWriteDeadline("A", t, both)
    \/ WriteCall("A", 1)
    \/ WriteAppend("A")
    \/ Flusher("A", {"wr"})
    \/ CloseWriteCall("A")
    \/ CloseWriteSwap("A")
    \/ CloseWriteAppend("A")
    \/ Tick(MaxTime)
SpecWriteDeadline == InitConn({}, {}, FALSE) /\ [][NextWriteDeadline]_vars

\* The goroutines of one connection and its mutexes.
NextLocks ==
    \/ \E g \in Writers, op \in {"write", "closewrite", "close", "ping"} :
          Enter(g, op)
    \/ \E g \in Writers : AppendLock(g)
    \/ \E g \in Writers : AppendUnlock(g)
    \/ \E g \in Writers : FlushLock(g)
    \/ \E g \in Writers : FlushTop(g)
    \/ \E g \in Writers, what \in {"empty", "rotate", "drain"},
           k \in 1..MaxPending : FlushLook(g, what, k)
    \/ \E g \in Writers, ok \in BOOLEAN : FlushSeal(g, ok)
    \/ \E g \in Writers, ok \in BOOLEAN : FlushRawDone(g, ok)
    \/ \E g \in Writers : CloseDone(g)
    \/ \E g \in Readers : ReadEnter(g)
    \/ \E g \in Readers : ReadLock(g)
    \/ \E g \in Readers, what \in {"return", "skip", "more"} : ReadLook(g, what)
    \/ \E g \in Readers, res \in {"nodata", "err", "ok"} : ReadRawDone(g, res)
    \/ \E g \in Readers, ok \in BOOLEAN : ReadFromDone(g, ok)
    \/ \E g \in Readers, ok \in BOOLEAN : ReadUnsealDone(g, ok)
SpecLocks == InitConn({}, {}, FALSE) /\ [][NextLocks]_vars

\* Accept and its dialers, which write on the connection Dial returned.
NextBlobs ==
    \/ NextAccept
    \/ \E c \in ConnIds : DialWriteRaw(c)
SpecBlobs == InitConn({}, {}, TRUE) /\ [][NextBlobs]_vars

\* A poller built with any two durations, then any sequence of Sleep and
\* Reset calls.
InitPoll == \E f, st \in Durations : InitConnPolled({}, {}, FALSE, f, st)
NextPoll ==
    \/ PollSleep("A")
    \/ PollReset("A")
SpecPoll == InitPoll /\ [][NextPoll]_vars

\* A writes once and B reads on a clock: raw reads that find nothing sleep on
\* the poller, raw reads that return bytes reset it.
NextBackoff ==
    \/ WriteOnce("A", 1)
    \/ WriteAppend("A")
    \/ Flusher("A", {"wr"})
    \/ ReadCall("B", MaxReadLen)
    \/ ReadTop("B")
    \/ ReadLocked("B")
    \/ Len(Avail("B")) > 0 /\ ReadRaw("B")
    \/ ReadNoData("B")
    \/ ReadWake("B")
    \/ ReadUnseal("B")
    \/ TickPolled(MaxTime)
SpecBackoff == InitConn({}, {}, FALSE) /\ [][NextBackoff]_vars

\* A writes over a rotating transport with keepAlive running and nobody
\* reads: data chunks and ROTATE chunks reach WriteRaw.
NextChunk ==
    \/ \E n \in 1..MaxWriteLen : WriteCall("A", n)
    \/ WriteAppend("A")
    \/ Flusher("A", {"wr", "ka"})
    \/ \E p \in {"wr", "ka"} : FlushRotate("A", p)
    \/ KeepAlive("A")
    \/ Tick(MaxTime)
SpecChunk == InitConn({"A"}, {"A"}, FALSE) /\ [][NextChunk]_vars

\* One goroutine of A calls CloseWrite while another calls Close; B reads.
NextFin ==
    \/ CloseWriteCall("A")
    \/ CloseWriteSwap("A")
    \/ CloseWriteAppend("A")
    \/ CloseCall("A", "cl")
    \/ CloseCheck("A", "cl")
    \/ CloseFin("A", "cl")
    \/ CloseTeardown("A", "cl")
    \/ Flusher("A", {"wr", "cl"})
    \/ FlushSendCanceled("A", "wr")
    \/ FlushNil("A", "wr")
    \/ Reader("B")
SpecFin == InitConn({}, {}, FALSE) /\ [][NextFin]_vars

\* ------------------------------------------------------------- properties
\* Side w has nothing left to send and side r has taken everything w wrote:
\* w's goroutines are at rest with an empty write buffer, the resource r reads
\* is read to its end, and r's Read found no complete frame and polls.
Quiet(w, r) ==
    /\ \A p \in Procs : pc[w][p] \in Rest
    /\ Len(wbuf[w].live) = 0
    /\ r = Peer(w)
    /\ Len(Avail(r)) = 0
    /\ rpc[r] = "rd_raw"

\* C1: with one writer on A and one reader on B, the bytes B's Read calls
\* have returned so far are a prefix of the bytes passed to A's Write calls,
\* for every Read buffer size and every interleaving with keepAlive.
C1_DeliveredIsPrefix == IsPrefix(delivered["B"], sent["A"])

\* C2: when every raw write succeeds and B keeps reading, every byte of a
\* Write that returned (len(p), nil) reaches B: once A is done and B has
\* taken everything A wrote, B's Reads have returned all of it.
C2_QuietAllDelivered ==
    (Quiet("A", "B") /\ obs["A"].acked = PayloadOf(sent["A"]))
        => delivered["B"] = sent["A"]

\* C3: A writes x, then CloseWrite or Close, all raw writes succeeding: B's
\* Reads return exactly x and then EOF.  B sees EOF only with all of x
\* returned, and B is not left polling once A's shutdown is in the transport.
C3_ExactlyThenEof ==
    /\ closedRead["B"] = 1 => delivered["B"] = sent["A"]
    /\ ~(Quiet("A", "B") /\ (obs["A"].cwDone \/ closeOnce["A"] = "done"))

\* C4: once CloseWrite has returned, no Write is accepted (io.ErrClosedPipe,
\* nothing is appended to the write buffer), while Read on the same connection
\* goes on returning the peer's bytes, and EOF only when the peer's FIN was
\* consumed.
C4_HalfClose ==
    \A s \in Sides :
        /\ ~obs[s].lateAccept
        /\ obs[s].cwDone => (Len(wbuf[s].live) = 0 /\ pc[s]["wr"] \in {"idle", "cw_swap"})
        /\ rres[s] \in {None, "data", "eof"}
        /\ rres[s] = "eof" => closedRead[s] = 1
        /\ IsPrefix(delivered[s], sent[Peer(s)])
\* A Write after CloseWrite tried io.ErrClosedPipe, a Read after CloseWrite
\* returned data, and the peer's FIN was consumed.
C4_Witness ==
    /\ obs["A"].cwDone
    /\ wres["A"] = "closedpipe"
    /\ obs["A"].lateRead
    /\ closedRead["A"] = 1

\* C5: Close is idempotent: over any number of sequential or concurrent Close
\* calls the close sequence starts once, one FIN is built, the transport is
\* closed once, and a caller that waits does so on a Once that is running.
C5_CloseOnce ==
    /\ obs["A"].closeSeq <= 1
    /\ obs["A"].tcloses <= 1
    /\ obs["A"].fins <= 1
    /\ closeOnce["A"] = "done" => (obs["A"].closeSeq = 1 /\ obs["A"].tcloses = 1)
    /\ \A p \in Procs : pc["A"][p] = "cl_wait" => closeOnce["A"] # "new"
\* Three Close calls have returned, the transport was closed once.
C5_Witness == obs["A"].closeRet = MaxCloseCalls /\ obs["A"].tcloses = 1

\* C6: Write returns (len(p), nil) only if every byte of p was sealed and
\* handed to a WriteRaw that succeeded, whichever goroutine's flush drained
\* p's frames.
C6_AckedWereWritten == obs["A"].acked \subseteq obs["A"].wired

\* C7: over a rotating transport the reader follows every rotation: when B
\* has taken everything A wrote, B called RotateRX once per ROTATE chunk A
\* wrote and reads A's current resource; it never rotates more often.
C7_RotateOncePerFrame ==
    /\ obs["B"].rotRx <= obs["A"].rotTx
    /\ Quiet("A", "B") => (obs["B"].rotRx = obs["A"].rotTx /\ rxSeq["B"] = Len(raw["A"]))

\* C8: the payload of every DATA frame is at most MaxRawSize - 20 - 5 bytes
\* and ciphertext plus tag of every sealed chunk at most MaxRawSize - 4.
C8_SizeBounds ==
    \A s \in Sides :
        /\ obs[s].maxFrame <= MaxRawSize - NoiseOverhead - FrameHeaderSize
        /\ obs[s].maxSealed <= MaxRawSize - 4
\* A full-size DATA frame was built and a full-size chunk written.
C8_Witness ==
    /\ obs["A"].maxFrame = MaxRawSize - NoiseOverhead - FrameHeaderSize
    /\ obs["A"].maxSealed = MaxRawSize - 4

\* keepAlive runs on side s and the connection is neither closed nor
\* write-closed.
KaOpen(s) == pc[s]["ka"] \notin {"off", "ka_done"} /\ closed[s] = 0 /\ closedWrite[s] = 0

C10_NoIdleEvictionUnderPings ==
    ~(obs["B"].evictIdle /\ now - obs["A"].lastOk < IdleTimeout)

C12_NoSessionAfterShutdown == lis.pc = "closed" => ~lis.session

\* C13: Listener.Close closes every live connection gracefully: when it has
\* returned, the FIN frame of B's connection was written to the raw transport.
C13_FinWrittenByListenerClose == lis.pc = "closed" => obs["B"].finWired

\* C14: a Read with a read deadline that finds no data returns "deadline
\* exceeded" at the first loop iteration after the deadline: it is never in a
\* raw read or sleep that ends later than the deadline (or the time it was
\* set) plus one raw read and one steady interval; and a Read never returns
\* "deadline exceeded" when the deadline is zero or absent, nor before it.
C14_DeadlineExceededInTime ==
    /\ (rpc["B"] = "rd_sleep" /\ readDeadline["B"] # 0)
           => wake["B"].at <= Max(readDeadline["B"], obs["B"].dset)
                                + RawReadMax + DataPoll
    /\ rres["B"] = "deadline"
           => (obs["B"].dlRet # 0 /\ obs["B"].dlAt > obs["B"].dlRet)
\* A Read that was in its raw read or sleep when the deadline passed has
\* returned "deadline exceeded" within one raw read and one steady interval.
C14_Witness ==
    /\ rres["B"] = "deadline"
    /\ rpc["B"] = "rd_idle"
    /\ obs["B"].dlAt = now
    /\ wake["B"].at = now
    /\ wake["B"].from <= readDeadline["B"]
    /\ obs["B"].dset < wake["B"].from
    /\ obs["B"].dlRet = readDeadline["B"]
    /\ now > readDeadline["B"] + 1

\* C15: when the connection's context is cancelled while a Read or a Write is
\* in raw I/O, that call returns the "closed" error, never the bare
\* cancellation or driver error.
C15_CancelledReturnsClosed == rres["B"] # "canceled" /\ wres["B"] # "err"

\* C16: a decryption failure is fatal: once a Read of B has returned a
\* decryption error, no later Read delivers application bytes.
C16_NoBytesAfterDecryptError == ~obs["B"].afterErr

\* C17: a failed raw write leaves the cipher states in step: as long as the
\* storage altered nothing, B's Reads never return a decryption error,
\* whatever raw writes of A failed before.
C17_InStepAfterFailedWrite == ~obs["A"].corrupted => rres["B"] # "decrypt"

\* The call g handed its receiver the chunk that the peer sealed as the
\* expected one: the i-th chunk of the peer as the i-th to be unsealed.
InTurn(g) == wire[g.i].from = Peer(g.to) /\ wire[g.i].seq = g.expected

\* C18: the i-th chunk sealed by one side, unsealed as the i-th chunk by the
\* peer, yields exactly the plaintext and no remaining bytes, in both
\* directions; the length prefix of a sealed chunk is |plaintext| + 16.
C18_SealUnsealRoundTrip ==
    /\ \A k \in 1..Len(wire) :
          Uint32(wire[k].chunk) = Len(wire[k].pt) + TagSize
    /\ \A k \in 1..Len(tried) :
          InTurn(tried[k]) =>
              /\ tried[k].kind = "ok"
              /\ tried[k].plain = wire[tried[k].i].pt
              /\ tried[k].rest = <<>>
\* Each side unsealed a chunk of the other in turn, B its second one.
C18_Witness ==
    /\ \E k \in 1..Len(tried) :
          tried[k].to = "A" /\ InTurn(tried[k]) /\ tried[k].kind = "ok"
    /\ \E k \in 1..Len(tried) :
          /\ tried[k].to = "B" /\ InTurn(tried[k]) /\ tried[k].kind = "ok"
          /\ tried[k].expected = 1

\* The plaintexts of the first n chunks of the peer of r, in sealing order.
RECURSIVE PlainUpTo(_, _, _)
PlainUpTo(r, n, k) ==
    IF k > Len(wire) THEN <<>>
    ELSE IF wire[k].from = Peer(r) /\ wire[k].seq < n
         THEN wire[k].pt \o PlainUpTo(r, n, k + 1)
         ELSE PlainUpTo(r, n, k + 1)

\* C19: a chunk presented a second time, or ahead of an earlier chunk not yet
\* unsealed, is rejected with a decryption error, and its plaintext is not
\* appended to the read buffer: the buffer holds the plaintexts of the
\* peer's chunks unsealed in turn, each once.
C19_ReplayAndReorderRejected ==
    /\ \A k \in 1..Len(tried) : ~InTurn(tried[k]) => tried[k].kind = "fail"
    /\ \A r \in Sides : rbuf[r] = PlainUpTo(r, RecvNonce(r), 1)
\* B was handed a chunk of A ahead of its turn, and later one it had already
\* unsealed; both were rejected.
C19_Witness ==
    /\ \E k \in 1..Len(tried) :
          /\ tried[k].to = "B" /\ wire[tried[k].i].from = "A"
          /\ wire[tried[k].i].seq > tried[k].expected
          /\ tried[k].kind = "fail"
    /\ \E k \in 1..Len(tried) :
          /\ tried[k].to = "B" /\ wire[tried[k].i].from = "A"
          /\ wire[tried[k].i].seq < tried[k].expected
          /\ tried[k].kind = "fail"
    /\ Len(rbuf["B"]) > 0

C21_OneLiveConnPerId ==
    /\ ~acc.replaced
    /\ acc.conns[""] = 0
    /\ \A x \in acc.returned : acc.conns[x[1]] = x[2]
\* Accept passed over an empty conn_id and over a live one, and a returned
\* connection is in the map.
C21_Witness ==
    /\ acc.skipped = {"empty", "live"}
    /\ acc.returned # {}

\* C30: whenever Dial and Accept both hold a connection for a conn_id that
\* one handshake record carried, the msg2 the dialer consumed was written by
\* the responder session of the accepted connection, so the two ends derive
\* the same cipher states.
C30_MatchingSessions ==
    \A c \in ConnIds :
        (acc.posts[c] = 1 /\ acc.dialed[c] # 0 /\ acc.conns[c] # 0)
            => acc.dialed[c] = acc.conns[c]

\* C22: after any sequence of Sleep and Reset calls on a poller built with any
\* fast and steady values, Fast <= Cur <= Steady; each Sleep that does not
\* skip sleeps for Cur and leaves Cur at min(2 * Cur, Steady), so that the
\* intervals slept since a Reset (or the construction) start at Fast, never
\* decrease and never exceed Steady.
C22_PollerWithinBounds ==
    LET p == poll["A"]
        nap == obs["A"].nap
    IN  /\ p.fast <= p.cur /\ p.cur <= p.steady
        /\ nap.cur # 0 =>
              /\ nap.cur <= p.steady
              /\ IF nap.prev = 0 THEN nap.cur = p.fast ELSE nap.prev <= nap.cur
              /\ ~nap.skipped => p.cur = Min(2 * nap.cur, p.steady)

C24_RawWriteWithinPlainBudget ==
    \A s \in Sides :
        obs[s].maxSealed > 0 => obs[s].maxSealed + 4 <= MaxRawSize - NoiseOverhead
\* C24 amended: no WriteRaw call, for a data chunk or a ROTATE chunk, gets
\* more than MaxRawSize bytes; the plaintext sealed into it is at most
\* MaxRawSize - NoiseOverhead bytes.
C24_RawWriteWithinRawSize ==
    \A s \in Sides :
        /\ obs[s].maxSealed > 0 => obs[s].maxSealed + 4 <= MaxRawSize
        /\ Len(plain[s].bytes) <= MaxRawSize - NoiseOverhead
\* A chunk of exactly MaxRawSize bytes and a ROTATE chunk were written.
C24_Witness ==
    /\ obs["A"].maxSealed + 4 = MaxRawSize
    /\ obs["A"].rotTx > 0

\* C25: over every interleaving of Close and CloseWrite calls from different
\* goroutines, at most one FIN frame is appended to the write buffer.
C25_AtMostOneFin == obs["A"].fins <= 1

\* C26: no DATA frame is appended to the write buffer after a FIN frame was,
\* whatever the interleaving of a Write with a concurrent Close or CloseWrite.
C26_NoDataAfterFin == ~obs["A"].dataAfterFin

\* C27: frame boundaries survive a rotation.  When flush wrote a ROTATE chunk
\* while the plaintext drained so far ended inside a frame (and no drained
\* chunk was overwritten before it was sealed, the case of C29), B, once it
\* has read all there is, has called RotateRX for every ROTATE chunk, reads
\* A's current resource and has returned every byte A wrote.
C27_RotateKeepsFrameBoundaries ==
    (obs["A"].rotMid /\ ~obs["A"].altered /\ Quiet("A", "B")) =>
        /\ obs["B"].rotRx = obs["A"].rotTx
        /\ rxSeq["B"] = Len(raw["A"])

\* C28: once Close has returned the buffers to the pool and cleared c.bufs, no
\* goroutine of the connection that passed its closed check earlier uses
\* them: c.bufs is never dereferenced when it is nil.
C28_NoUseAfterRelease == \A s \in Sides : ~crashed[s]

\* C29: the chunk flush drains from the write buffer is sealed unmodified: no
\* frame appended by a concurrent Write, CloseWrite or keepAlive tick between
\* the release of wmu and the seal alters the drained bytes.
C29_SealedAsDrained == \A s \in Sides : ~obs[s].altered
\* C31: the append blobs of a session exist before the dialer can obtain the
\* session token, so no WriteRaw the dialer issues after Dial returned fails
\* and no later blob creation erases what the dialer wrote.
C31_BlobsBeforeToken ==
    /\ \A c \in ConnIds : acc.dialed[c] # 0 => c \in acc.blobs
    /\ ~acc.writeFailed
    /\ ~acc.erased

\* The dialer holds the token of a session whose pass has not yet called
\* NewTransport, and its WriteRaw failed.
C31_WriteBeforeBlobs ==
    /\ acc.pass # 0
    /\ acc.dialed[Head(acc.scan).conn] = acc.pass
    /\ acc.writeFailed

\* C40: a pass of Accept's record loop that fails (Noise read error, empty or
\* duplicate conn_id, CreateSession, PostToken or NewTransport error) goes on
\* with the rest of the list: Accept does not return, no record is removed, so
\* later records stay acceptable, and no connection is stored or returned for
\* the failed pass.  A pass that fails is a step that takes a record off the
\* list without returning a connection.
C40_FailedPassGoesOn ==
    [][(acc.scan # << >> /\ acc'.scan # acc.scan
           /\ acc'.returned = acc.returned) =>
         /\ acc'.scan = Tail(acc.scan)
         /\ acc'.records = acc.records
         /\ acc'.conns = acc.conns
         /\ ~acc'.replaced]_vars

\* A pass failed on the first record, which is still on the storage, and the
\* second record was accepted by the pass after it.
C40_Witness ==
    /\ acc.posted = 2 /\ acc.sessions = 2
    /\ Len(acc.records) = 1 /\ acc.records[1].id = 1
    /\ acc.records[1].conn \notin {""} \cup {x[1] : x \in acc.returned}
    /\ \E x \in acc.returned : x[2] = 2 /\ acc.conns[x[1]] = 2
    /\ acc.conns[acc.records[1].conn] = 0
\* C32: every access to the scratch buffer, the read buffer and readRemain is
\* made by a goroutine that holds rmu, the copy of the stream ReadRaw returned
\* into the scratch buffer included, so two goroutines in Read never touch
\* these buffers at the same time.
C32_BuffersUnderRmu ==
    /\ \A g \in Readers : lk.pc[g] \in {"rlook", "from", "unseal"} => lk.rmu = g
    /\ \A g, h \in Readers :
          (lk.pc[g] \in {"rlook", "from", "unseal"}
             /\ lk.pc[h] \in {"rlook", "from", "unseal"}) => g = h

\* One goroutine copies a stream into the scratch buffer while the other,
\* holding rmu, unseals from it.
C32_ScratchShared ==
    /\ lk.pc["r1"] = "from" /\ lk.pc["r2"] = "unseal" /\ lk.rmu = "r2"

\* C33: no goroutine holds wmu while it is in WriteRaw or rmu while it is in
\* ReadRaw, and every path of Write, flush, Read, Close, CloseWrite and the
\* keep-alive task has released the locks it took when it returns: a mutex
\* is held only inside the section that took it.
C33_NoLockAcrossRawCalls ==
    \A g \in Gs :
       /\ lk.pc[g] \in {"raw", "seal"} => lk.wmu # g
       /\ lk.pc[g] \in {"rraw", "from"} => lk.rmu # g
       /\ lk.wmu = g => lk.pc[g] \in {"build", "look"}
       /\ lk.rmu = g => lk.pc[g] \in {"rlook", "unseal"}
       /\ lk.fmu = g => lk.pc[g] \in {"top", "look", "seal", "raw"}
       /\ lk.pc[g] \in {"idle", "tear"} => g \notin {lk.wmu, lk.rmu, lk.fmu}

\* One goroutine is in WriteRaw, holding fmu only, while another holds wmu to
\* append; one is in ReadRaw while the other holds rmu.
C33_Witness ==
    /\ lk.pc["w"] = "raw" /\ lk.fmu = "w" /\ lk.wmu = "k"
    /\ lk.pc["r1"] = "rraw" /\ lk.rmu = "r2"
    /\ lk.pc["c"] = "idle" /\ lk.once

\* The mutex goroutine g is blocked on, if any, and whether g can take a step.
Waits(g) ==
    CASE lk.pc[g] \in {"append", "top"} -> "wmu"
      [] lk.pc[g] = "flush" -> "fmu"
      [] lk.pc[g] \in {"rlock", "rlock2"} -> "rmu"
      [] OTHER -> None
Holder(g) == IF Waits(g) = None THEN None ELSE lk[Waits(g)]
Runnable(g) == Holder(g) = None

\* C34: fmu is taken before wmu and never while wmu is held, so the
\* goroutines of one connection cannot deadlock on its locks: whoever waits
\* for a mutex waits for a goroutine that runs, or that waits for one that
\* runs.
C34_FmuBeforeWmu ==
    \A g \in Gs :
       /\ lk.pc[g] = "flush" => lk.wmu # g
       /\ lk.pc[g] \in {"top", "look"} => lk.fmu = g
       /\ Holder(g) # g
       /\ \/ Runnable(g)
          \/ Runnable(Holder(g))
          \/ Runnable(Holder(Holder(g)))

\* Close waits for fmu, which Write holds inside flush while it waits for
\* wmu, which the keep-alive task holds to append its PING.
C34_Witness ==
    /\ lk.pc["c"] = "flush" /\ lk.op["c"] = "close1"
    /\ lk.fmu = "w" /\ lk.pc["w"] = "top"
    /\ lk.wmu = "k" /\ lk.pc["k"] = "build"
\* C35: a Write made after its write deadline returns "deadline exceeded",
\* appends nothing to the write buffer and makes no raw write; the closed /
\* closedWrite check comes first; and a Write returns "deadline exceeded"
\* only when a non-zero deadline has passed.
C35_WriteDeadline ==
    [][(pc["A"]["wr"] = "idle"
          /\ (pc'["A"]["wr"] = "w_append" \/ wres'["A"] # wres["A"])) =>
         /\ WriteRefused("A") => wres'["A"] = "closedpipe"
         /\ (~WriteRefused("A") /\ writeDeadline["A"] # 0
               /\ now > writeDeadline["A"])
              => /\ wres'["A"] = "deadline"
                 /\ pc' = pc /\ wbuf' = wbuf /\ raw' = raw /\ sent' = sent
         /\ wres'["A"] = "deadline"
              => /\ writeDeadline["A"] # 0 /\ now > writeDeadline["A"]
                 /\ ~WriteRefused("A")]_vars

\* After a Write that was sent, a Write made after the deadline returned
\* "deadline exceeded": nothing is buffered and the storage holds the first
\* Write only.
C35_Witness ==
    /\ wres["A"] = "deadline"
    /\ Len(sent["A"]) = 1
    /\ pc["A"]["wr"] = "idle"
    /\ Len(wbuf["A"].live) = 0
    /\ now > writeDeadline["A"]
    /\ closedWrite["A"] = 0
\* C36: when Read finds a complete PING, ROTATE or unknown-type frame at the
\* head of its read buffer it takes header and payload off the buffer, returns
\* nothing to the caller and leaves the bytes delivered so far, readRemain
\* and the rest of the buffer as they were; and the dispatch of a complete
\* frame of any type stores the current time in peerLastSeen.
C36_ControlFramesSkipped ==
    [][(rpc["B"] = "rd_lock" /\ rpc'["B"] # "rd_lock" /\ closedRead["B"] = 0
          /\ ~DeadlinePassed("B") /\ readRemain["B"] = 0 /\ HasFrame("B")) =>
         /\ peerLastSeen'["B"] = now
         /\ HeadType("B") \notin {MsgTypeData, MsgTypeFin} =>
              /\ delivered' = delivered
              /\ rres' = rres
              /\ readRemain' = readRemain
              /\ closedRead' = closedRead
              /\ rbuf'["B"] = Drop(rbuf["B"], FrameHeaderSize + HeadLen("B"))
              /\ rpc'["B"] = "rd_top"]_vars

\* B has skipped a PING, a ROTATE and an unknown-type frame and has returned
\* every byte A wrote, in order.
C36_Witness ==
    /\ obs["B"].skipped = {MsgTypePing, MsgTypeRotate, MsgTypeUnknown}
    /\ Len(sent["A"]) = MaxWriteLen
    /\ delivered["B"] = sent["A"]
    /\ peerLastSeen["B"] = now /\ now > 0
\* C37: lastActive holds the time of the connection's last successful raw
\* write, whatever the chunk carried (DATA, PING, FIN or ROTATE), and a failed
\* seal or raw write leaves it unchanged.
C37_LastActiveIsLastRawWrite == lastActive["A"] = obs["A"].lastOk
\* C38: the keep-alive task buffers a PING only at a tick at which the
\* connection is neither closed nor write-closed and lastActive is at least
\* PingInterval old; at the first tick at which closed or closedWrite is set,
\* or when the context is cancelled, it stops and never runs again; a
\* connection made with pingInterval = 0 has no keep-alive task and sends no
\* PING.
C38_KeepAlive ==
    /\ [][(pc'["A"]["ka"] = "ka_append" /\ pc["A"]["ka"] # "ka_append") =>
            /\ pc["A"]["ka"] = "ka_wait" /\ now = kaNext["A"]
            /\ closed["A"] = 0 /\ closedWrite["A"] = 0
            /\ now - lastActive["A"] >= PingInterval]_vars
    /\ [][(pc["A"]["ka"] = "ka_wait" /\ kaNext'["A"] # kaNext["A"]
             /\ (closed["A"] = 1 \/ closedWrite["A"] = 1))
            => pc'["A"]["ka"] = "ka_done"]_vars
    /\ [][pc["A"]["ka"] = "ka_done" =>
            (pc'["A"]["ka"] = "ka_done" /\ obs'["A"].pings = obs["A"].pings)]_vars
    /\ [](pc["B"]["ka"] = "off" /\ obs["B"].pings = 0)

\* The keep-alive task of A sent a PING and stopped at the tick after
\* CloseWrite; B, without a keep-alive task, has written.
C38_Witness ==
    /\ pc["A"]["ka"] = "ka_done"
    /\ obs["A"].pings = 1
    /\ closedWrite["A"] = 1 /\ closed["A"] = 0
    /\ now = kaNext["A"] - PingInterval
    /\ Len(sent["B"]) = 1 /\ pc["B"]["wr"] = "idle"
\* C39: Read issues DeleteToken at most once per connection, only on the
\* responder, and only once it has unsealed a chunk, which the dialer can
\* have sealed only after it fetched the token; the initiator's Read never
\* issues it.
C39_TokenDeletedOnce ==
    /\ obs["A"].deleteTokens = 0
    /\ obs["B"].deleteTokens <= 1
    /\ obs["B"].deleteTokens = 1 <=> cs1["B"] > 0
    /\ cs1["B"] <= cs1["A"]

\* B has unsealed two chunks and issued DeleteToken once; A has unsealed a
\* chunk and issued none.
C39_Witness ==
    /\ cs1["B"] = 2 /\ obs["B"].deleteTokens = 1
    /\ cs2["A"] = 1 /\ obs["A"].cleanupToken /\ obs["A"].deleteTokens = 0
    /\ rpc["B"] = "rd_idle"
====
